---------------------------- MODULE Spec2Model ----------------------------
(***************************************************************************)
(* Chronic-circuit classification pipeline of the monthly reporting tool:  *)
(* canonical_id (utils.py), get_rolling_ticket_total (analyze_data.py),    *)
(* and load_baseline_status / process_chronic_logic / build_monthly_report *)
(* (monthly_builder.py).                                                   *)
(*                                                                         *)
(* A Python str is modelled as a sequence of one-character strings, so     *)
(* that the character-level rules of canonical_id are computed, not        *)
(* assumed.  "" is << >>.                                                  *)
(***************************************************************************)
EXTENDS Integers, Sequences, FiniteSets, TLC

VARIABLES
  raw,        \* SpecCanon: the argument handed to canonical_id
  cid,        \* SpecCanon: what canonical_id returned for it
  rdata,      \* SpecRoll: the DataFrame handed to get_rolling_ticket_total
  rquery,     \* SpecRoll: the canonical circuit id asked for
  rtotal,     \* SpecRoll: what get_rolling_ticket_total returned
  CONSISTENT_THRESHOLD,  \* Spec: the module constant of monthly_builder
  frozen_legacy,  \* Spec: ./docs/frozen_legacy_list.json
  final_output,   \* Spec: the chronic_summary_*.json files in ./final_output
  schedule,       \* Spec: the reporting periods still to be built
  built_month,    \* Spec: month_str of the last build ("" before the first)
  built_impacts,  \* Spec: impacts_df as load_crosstab_data returned it
  built_counts,   \* Spec: counts_df as load_crosstab_data returned it
  load_call,      \* Spec, SpecLoad: how the call of load_baseline_status ended
  baseline,       \* Spec, SpecLoad: what load_baseline_status returned
  all_circuits,   \* Spec: all_chronic_circuits after the extend
  trend_analysis, \* Spec, SpecTrend: what generate_trend_analysis returned
  chronic_data,   \* Spec: what process_chronic_logic returned;
                  \* SpecMetrics: the argument of calculate_metrics
  metrics,        \* SpecMetrics, SpecValidate: the metrics dictionary
  validation      \* SpecMetrics, SpecValidate: how validate_calculations ended

canonVars == <<raw, cid>>
rollVars  == <<rdata, rquery, rtotal>>
envVars   == <<CONSISTENT_THRESHOLD, frozen_legacy, final_output, schedule>>
buildVars == <<built_month, built_impacts, built_counts, load_call, baseline, all_circuits, chronic_data, trend_analysis>>
metricVars == <<metrics, validation>>
vars      == <<canonVars, rollVars, envVars, buildVars, metricVars>>

\* monthly_builder.CONSISTENT_THRESHOLD when MR_CONSISTENT_THRESHOLD is unset
DEFAULT_CONSISTENT_THRESHOLD == 6

\* The pipeline before any build, with nothing on disk.
NoFrame == [columns |-> {}, rows |-> << >>]

NoFrozenFile ==
  [exists |-> FALSE,
   data |-> [chronic_consistent |-> << >>, chronic_inconsistent |-> << >>,
             media_chronics |-> << >>]]

NoBaseline ==
  [baseline_status |-> << >>, baseline_ids |-> {}, baseline_found |-> FALSE]

NoChronicData ==
  [total_chronic_circuits |-> 0, media_chronics |-> 0, new_chronics |-> << >>,
   new_chronic_count |-> 0,
   existing_chronics |->
     [chronic_consistent |-> << >>, chronic_inconsistent |-> << >>,
      media_chronics |-> << >>, perf_60_day |-> << >>, perf_30_day |-> << >>],
   updated_perf_30_day |-> << >>, updated_perf_60_day |-> << >>,
   circuit_ticket_data |-> << >>, merged_data |-> NoFrame]

\* No metrics dictionary yet, validate_calculations not called.
MetricsIdle ==
  /\ metrics = << >>
  /\ validation = "not called"

\* generate_trend_analysis not called: no outcome, no file read.
NoTrend == [outcome |-> "not called", previous |-> << >>, current |-> << >>]

NotBuilt ==
  /\ trend_analysis = NoTrend
  /\ built_month = << >>
  /\ built_impacts = NoFrame
  /\ built_counts = NoFrame
  /\ load_call = "not called"
  /\ baseline = NoBaseline
  /\ all_circuits = << >>
  /\ chronic_data = NoChronicData

PipelineIdle ==
  /\ CONSISTENT_THRESHOLD = DEFAULT_CONSISTENT_THRESHOLD
  /\ frozen_legacy = NoFrozenFile
  /\ final_output = {}
  /\ schedule = << >>
  /\ NotBuilt

(***************************************************************************)
(* Characters                                                              *)
(***************************************************************************)
Digits == {"0", "1", "2", "3", "4", "5", "6", "7", "8", "9"}

Letters ==
  {"A", "B", "C", "D", "E", "F", "G", "H", "I", "J", "K", "L", "M",
   "N", "O", "P", "Q", "R", "S", "T", "U", "V", "W", "X", "Y", "Z",
   "a", "b", "c", "d", "e", "f", "g", "h", "i", "j", "k", "l", "m",
   "n", "o", "p", "q", "r", "s", "t", "u", "v", "w", "x", "y", "z"}

\* The characters str.strip() removes from both ends.
Whitespace == {" ", "\t", "\n", "\r"}

\* The delimiters of canonical_id, in the order its loop visits them.
Delimiters == <<"_", "/", " ">>

(***************************************************************************)
(* Python values handed to canonical_id: a str, or None.                   *)
(***************************************************************************)
PyNone == [tag |-> "None", s |-> << >>]

PyStr(s) == [tag |-> "str", s |-> s]

(***************************************************************************)
(* str helpers                                                             *)
(***************************************************************************)
\* Index of the first occurrence of character c in s, 0 when there is none.
FirstIndex(s, c) ==
  IF \E i \in 1..Len(s) : s[i] = c
    THEN CHOOSE i \in 1..Len(s) : s[i] = c /\ \A j \in 1..(i - 1) : s[j] # c
    ELSE 0

\* s.split(c, 1)[0]: everything before the first c, all of s without a c.
SplitFirst(s, c) ==
  IF FirstIndex(s, c) = 0 THEN s ELSE SubSeq(s, 1, FirstIndex(s, c) - 1)

\* s.strip()
Strip(s) ==
  IF \A i \in 1..Len(s) : s[i] \in Whitespace
    THEN << >>
    ELSE LET lo == CHOOSE i \in 1..Len(s) :
                     s[i] \notin Whitespace /\ \A j \in 1..(i - 1) : s[j] \in Whitespace
             hi == CHOOSE i \in 1..Len(s) :
                     s[i] \notin Whitespace /\ \A j \in (i + 1)..Len(s) : s[j] \in Whitespace
         IN  SubSeq(s, lo, hi)

\* The loop of canonical_id over the delimiters: each one present in what is
\* left cuts it at its first occurrence.
RECURSIVE StripDelimiters(_, _)
StripDelimiters(s, k) ==
  IF k > Len(Delimiters) THEN s
  ELSE StripDelimiters(SplitFirst(s, Delimiters[k]), k + 1)

\* The pattern with \d{2,} in place of \d{3,} (mutant).
MatchesTwoDigitsHyphenLetters(s) ==
  \E h \in 1..Len(s) :
    /\ s[h] = "-"
    /\ h >= 3
    /\ \A i \in (h - 2)..(h - 1) : s[i] \in Digits
    /\ h < Len(s)
    /\ \A i \in (h + 1)..Len(s) : s[i] \in Letters

\* re.match(r".*\d{3,}-[A-Za-z]{1,}$", s): some hyphen is preceded by three
\* digits and followed, up to the end of s, by one or more letters.
MatchesDigitsHyphenLetters(s) ==
  \E h \in 1..Len(s) :
    /\ s[h] = "-"
    /\ h >= 4
    /\ \A i \in (h - 3)..(h - 1) : s[i] \in Digits
    /\ h < Len(s)
    /\ \A i \in (h + 1)..Len(s) : s[i] \in Letters

\* The hyphen rule of canonical_id: on a match, s.split("-", 1)[0].
HyphenRule(s) ==
  IF MatchesDigitsHyphenLetters(s) THEN SplitFirst(s, "-") ELSE s

\* canonical_id cutting at the first delimiter in the loop's order only (mutant).
canonical_id_onedelim(r) ==
  IF r.tag = "None" THEN << >>
  ELSE IF r.s = << >> THEN << >>
  ELSE LET s == Strip(r.s)
           present == {k \in 1..Len(Delimiters) : FirstIndex(s, Delimiters[k]) # 0}
           k0 == CHOOSE k \in present : \A j \in present : k <= j
       IN  HyphenRule(IF present = {} THEN s ELSE SplitFirst(s, Delimiters[k0]))

\* canonical_id returning the input for a falsy argument (mutant).
canonical_id_nonekept(r) ==
  IF r.tag = "None" THEN <<"N", "o", "n", "e">>
  ELSE IF r.s = << >> THEN << >>
  ELSE HyphenRule(StripDelimiters(Strip(r.s), 1))

\* utils.canonical_id
canonical_id(r) ==
  IF r.tag = "None" THEN << >>                    \* raw is None
  ELSE IF r.s = << >> THEN << >>                  \* not raw: str("")
  ELSE HyphenRule(StripDelimiters(Strip(r.s), 1))

(***************************************************************************)
(* get_rolling_ticket_total (analyze_data.py).  A DataFrame is the set of  *)
(* its column names and the sequence of its rows; a row holds a value for  *)
(* every modelled column, NaN where the cell is empty.                     *)
(***************************************************************************)
\* A cell is << >> when it is empty (NaN) and <<v>> when it holds v.
NaN == << >>

Cell(v) == <<v>>

COL_NAME    == "Config Item Name"
COL_CANON   == "canonical_id"
COL_TICKETS == "Distinct count of Inc Nbr"
COL_MONTHS  == "COUNTD Months"
COL_PROVIDER == "Incident Network-facing Impacted CI Type"
COL_CANON_X  == "canonical_id_x"
COL_CANON_Y  == "canonical_id_y"

\* Series.fillna(0) on one cell.
FillNa0(v) == IF v = NaN THEN 0 ELSE v[1]

\* Series.fillna(0).sum() over the rows' field f.
RECURSIVE SumField(_, _)
SumField(rows, f) ==
  IF rows = << >> THEN 0
  ELSE FillNa0(Head(rows)[f]) + SumField(Tail(rows), f)

\* data[data[col] == value]
RECURSIVE SelectEq(_, _, _)
SelectEq(rows, f, value) ==
  IF rows = << >> THEN << >>
  ELSE IF Head(rows)[f] = value
         THEN <<Head(rows)>> \o SelectEq(Tail(rows), f, value)
         ELSE SelectEq(Tail(rows), f, value)

\* The columns the legacy branch sums: those whose lower-cased name contains
\* 'ticket', 'count' or 'incident'.
TicketLikeColumns(cols) == cols \cap {COL_TICKETS, COL_MONTHS, COL_PROVIDER}

RECURSIVE SumColumns(_, _)
SumColumns(rows, cols) ==
  IF cols = {} THEN 0
  ELSE LET c == CHOOSE c \in cols : TRUE
       IN  SumField(rows, c) + SumColumns(rows, cols \ {c})

\* get_rolling_ticket_total always filtering on 'Config Item Name' (mutant).
get_rolling_ticket_total_byname(c, data) ==
  LET circuit_data == SelectEq(data.rows, COL_NAME, c)
  IN  IF Len(circuit_data) = 0 THEN 0 ELSE SumField(circuit_data, COL_TICKETS)

\* analyze_data.get_rolling_ticket_total
get_rolling_ticket_total(c, data) ==
  LET circuit_data ==
        IF COL_CANON \in data.columns
          THEN SelectEq(data.rows, COL_CANON, c)
          ELSE SelectEq(data.rows, COL_NAME, c)
      legacy == SumColumns(circuit_data, TicketLikeColumns(data.columns))
  IN  IF Len(circuit_data) = 0 THEN 0
      ELSE IF COL_TICKETS \in data.columns THEN SumField(circuit_data, COL_TICKETS)
      ELSE IF legacy = 0 THEN Len(circuit_data)
      ELSE legacy

(***************************************************************************)
(* Circuit identifiers the source names, as character sequences.           *)
(***************************************************************************)
ID_SR216187 == <<"S", "R", "2", "1", "6", "1", "8", "7">>

ID_091NOID1143035717419 == <<"0", "9", "1", "N", "O", "I", "D", "1", "1", "4", "3", "0", "3", "5", "7", "1", "7", "4", "1", "9">>

ID_091NOID1143035717419_889599 == ID_091NOID1143035717419 \o <<"_", "8", "8", "9", "5", "9", "9">>

ID_091NOID1143035717419_889621 == ID_091NOID1143035717419 \o <<"_", "8", "8", "9", "6", "2", "1">>

ID_091NOID1143035717419_1040578 == ID_091NOID1143035717419 \o <<"_", "1", "0", "4", "0", "5", "7", "8">>

(***************************************************************************)
(* SpecCanon: canonical_id applied to every string made of at most         *)
(* MaxPieces pieces, and to None.                                          *)
(***************************************************************************)
MaxPieces == 5

Pieces ==
  {<<"A">>, <<"1", "2", "3">>, <<"1", "2">>, <<"-">>, <<"_">>, <<"/">>, <<" ">>}

SeqsUpTo(S, n) == UNION {[1..k -> S] : k \in 0..n}

RECURSIVE Flatten(_)
Flatten(ps) == IF ps = << >> THEN << >> ELSE Head(ps) \o Flatten(Tail(ps))

CanonInputs ==
  {PyNone} \cup {PyStr(Flatten(ps)) : ps \in SeqsUpTo(Pieces, MaxPieces)}

NotCalled == [done |-> FALSE, val |-> << >>]

Returned(v) == [done |-> TRUE, val |-> v]

RollIdle ==
  /\ rdata = [columns |-> {}, rows |-> << >>]
  /\ rquery = << >>
  /\ rtotal = [done |-> FALSE, val |-> 0]

CanonIdle ==
  /\ raw = PyNone
  /\ cid = NotCalled

InitCanon ==
  /\ raw \in CanonInputs
  /\ cid = NotCalled
  /\ RollIdle
  /\ PipelineIdle
  /\ MetricsIdle

CallCanonicalId ==
  /\ ~cid.done
  /\ cid' = Returned(canonical_id(raw))
  /\ UNCHANGED <<raw, rollVars, envVars, buildVars, metricVars>>

NextCanon == CallCanonicalId

SpecCanon == InitCanon /\ [][NextCanon]_vars

(***************************************************************************)
(* SpecRoll: get_rolling_ticket_total applied to every DataFrame of at     *)
(* most MaxRollRows rows over a few raw names and counts, with and without *)
(* the canonical_id and ticket columns.  The canonical_id column is the    *)
(* one load_crosstab_data adds: canonical_id of the row's name.            *)
(***************************************************************************)
MaxRollRows == 3

RollNames ==
  {ID_091NOID1143035717419_889599, ID_091NOID1143035717419_889621,
   ID_091NOID1143035717419_1040578, ID_SR216187}

RollCounts == {NaN, Cell(1), Cell(2), Cell(3)}

RollRow(n, k) ==
  (COL_NAME :> n) @@ (COL_CANON :> canonical_id(PyStr(n))) @@
  (COL_TICKETS :> k) @@ (COL_MONTHS :> Cell(3))

RollRows == {RollRow(n, k) : n \in RollNames, k \in RollCounts}

RollColumnSets ==
  {{COL_NAME, COL_MONTHS} \cup opt : opt \in SUBSET {COL_CANON, COL_TICKETS}}

RollQueries == {ID_091NOID1143035717419, ID_SR216187}

InitRoll ==
  /\ rdata \in [columns : RollColumnSets, rows : SeqsUpTo(RollRows, MaxRollRows)]
  /\ rquery \in RollQueries
  /\ rtotal = [done |-> FALSE, val |-> 0]
  /\ CanonIdle
  /\ PipelineIdle
  /\ MetricsIdle

CallGetRollingTicketTotal ==
  /\ ~rtotal.done
  /\ rtotal' = [done |-> TRUE, val |-> get_rolling_ticket_total(rquery, rdata)]
  /\ UNCHANGED <<rdata, rquery, canonVars, envVars, buildVars, metricVars>>

NextRoll == CallGetRollingTicketTotal

SpecRoll == InitRoll /\ [][NextRoll]_vars

(***************************************************************************)
(* Properties of canonical_id (SpecCanon)                                  *)
(***************************************************************************)
DelimiterChars == {"_", "/", " "}

\* The prefix of s before the earliest character of s that is a delimiter.
PrefixBeforeDelimiter(s) ==
  IF \E i \in 1..Len(s) : s[i] \in DelimiterChars
    THEN LET e == CHOOSE i \in 1..Len(s) :
                    s[i] \in DelimiterChars /\ \A j \in 1..(i - 1) : s[j] \notin DelimiterChars
         IN  SubSeq(s, 1, e - 1)
    ELSE s

\* Index of the last hyphen of s, 0 when there is none.
LastHyphen(s) ==
  IF \E i \in 1..Len(s) : s[i] = "-"
    THEN CHOOSE i \in 1..Len(s) : s[i] = "-" /\ \A j \in (i + 1)..Len(s) : s[j] # "-"
    ELSE 0

\* s ends with at least three digits, a hyphen, and one or more letters.
EndsDigitsHyphenLetters(s) ==
  LET h == LastHyphen(s)
  IN  /\ h >= 4
      /\ h < Len(s)
      /\ \A i \in (h + 1)..Len(s) : s[i] \in Letters
      /\ {s[h - 3], s[h - 2], s[h - 1]} \subseteq Digits

\* C6: for a string input canonical_id trims surrounding whitespace, keeps the
\* prefix before the earliest '_', '/' or space and hands it to the hyphen
\* rule; the result holds none of the three characters.
C6_PrefixBeforeEarliestDelimiter ==
  (cid.done /\ raw.tag = "str") =>
    /\ cid.val = HyphenRule(PrefixBeforeDelimiter(Strip(raw.s)))
    /\ \A i \in 1..Len(cid.val) : cid.val[i] \notin DelimiterChars

\* C6 witness: ' A/12_' (a leading space, '/' ahead of '_') gave 'A'.
C6_Witness ==
  /\ raw = PyStr(<<" ", "A", "/", "1", "2", "_">>)
  /\ cid = Returned(<<"A">>)

\* C7: when the delimiter-truncated string ends with three or more digits, a
\* hyphen and letters, the result is everything before that hyphen.
C7_TruncatesAtDigitRunHyphen ==
  LET t == PrefixBeforeDelimiter(Strip(raw.s))
  IN  (cid.done /\ raw.tag = "str" /\ EndsDigitsHyphenLetters(t)) =>
        cid.val = SubSeq(t, 1, LastHyphen(t) - 1)

C9_NoneAndEmptyGiveEmpty ==
  (cid.done /\ (raw = PyNone \/ raw = PyStr(<< >>))) => cid.val = << >>

\* C9 witness: canonical_id(None) has returned.
C9_Witness ==
  /\ raw = PyNone
  /\ cid = Returned(<< >>)

\* The hyphens of s that directly follow a run of at least three digits.
HyphensAfterDigitRun(s) ==
  {h \in 4..Len(s) : s[h] = "-" /\ {s[h - 3], s[h - 2], s[h - 1]} \subseteq Digits}

\* The part of s after position h mixes letters and digits: it holds
\* nothing else, and at least one of each.
MixedSuffix(s, h) ==
  /\ \A i \in (h + 1)..Len(s) : s[i] \in Letters \cup Digits
  /\ \E i \in (h + 1)..Len(s) : s[i] \in Letters
  /\ \E i \in (h + 1)..Len(s) : s[i] \in Digits

\* C11: when a hyphen of the delimiter-truncated string directly follows a
\* run of at least three digits and the suffix after it mixes letters and
\* digits (as in '500335805-CH1'), the result is the part before that hyphen.
C11_TruncatesBeforeMixedSuffix ==
  (cid.done /\ raw.tag = "str") =>
    LET t == PrefixBeforeDelimiter(Strip(raw.s))
    IN  \A h \in HyphensAfterDigitRun(t) :
          MixedSuffix(t, h) => cid.val = SubSeq(t, 1, h - 1)

(***************************************************************************)
(* Properties of get_rolling_ticket_total (SpecRoll)                       *)
(***************************************************************************)
\* Sum, over the first n rows, of the counts of the rows whose canonical_id
\* is c, an empty count being 0.
RECURSIVE MatchingCountSum(_, _, _)
MatchingCountSum(rows, c, n) ==
  IF n = 0 THEN 0
  ELSE MatchingCountSum(rows, c, n - 1)
       + (IF rows[n][COL_CANON] = c /\ rows[n][COL_TICKETS] # NaN
            THEN rows[n][COL_TICKETS][1] ELSE 0)

\* C10: with a canonical_id column, the total is the sum of the counts of
\* exactly the rows whose canonical_id is the one asked for (0 without one).
C10_SumsRowsOfCanonicalId ==
  (rtotal.done /\ {COL_CANON, COL_TICKETS} \subseteq rdata.columns) =>
    rtotal.val = MatchingCountSum(rdata.rows, rquery, Len(rdata.rows))

\* C10 witness: three raw variants of one canonical ID with 2, 3 and 1 gave 6.
C10_Witness ==
  /\ rdata.rows = <<RollRow(ID_091NOID1143035717419_889599, Cell(2)),
                    RollRow(ID_091NOID1143035717419_889621, Cell(3)),
                    RollRow(ID_091NOID1143035717419_1040578, Cell(1))>>
  /\ COL_CANON \in rdata.columns
  /\ rquery = ID_091NOID1143035717419
  /\ rtotal = [done |-> TRUE, val |-> 6]

(***************************************************************************)
(* monthly_builder.py: configuration and hardcoded lists                   *)
(***************************************************************************)
ID_VID_1583 == <<"V", "I", "D", "-", "1", "5", "8", "3">>

ID_445082297 == <<"4", "4", "5", "0", "8", "2", "2", "9", "7">>

ID_444282783 == <<"4", "4", "4", "2", "8", "2", "7", "8", "3">>

ID_444089285 == <<"4", "4", "4", "0", "8", "9", "2", "8", "5">>

ID_444089468 == <<"4", "4", "4", "0", "8", "9", "4", "6", "8">>

\* all_chronic_circuits as written in process_chronic_logic.
all_chronic_circuits ==
  <<
    <<"5", "0", "0", "3", "3", "2", "7", "3", "8">>,  \* '500332738'
    <<"5", "0", "0", "3", "3", "4", "1", "9", "3">>,  \* '500334193'
    <<"5", "0", "0", "3", "3", "5", "8", "0", "5">>,  \* '500335805'
    ID_091NOID1143035717419_889599,  \* '091NOID1143035717419_889599'
    <<"0", "9", "1", "N", "O", "I", "D", "1", "1", "4", "3", "0", "3", "5", "7", "1", "7", "8", "4", "9", "_", "8", "8", "9", "6", "2", "1">>,  \* '091NOID1143035717849_889621'
    ID_SR216187,  \* 'SR216187'
    <<"P", "T", "H", " ", "T", "O", "K", " ", "E", "P", "L", " ", "9", "0", "0", "3", "0", "0", "2", "5">>,  \* 'PTH TOK EPL 90030025'
    <<"L", "Z", "A", "0", "1", "0", "6", "6", "3">>,  \* 'LZA010663'
    <<"L", "D", "0", "1", "7", "9", "3", "6">>,  \* 'LD017936'
    <<"I", "S", "T", "6", "0", "4", "1", "E", "#", "3", "_", "0", "1", "0", "G">>,  \* 'IST6041E#3_010G'
    <<"I", "S", "T", "6", "0", "2", "2", "E", "#", "2", "_", "0", "1", "0", "G">>,  \* 'IST6022E#2_010G'
    <<"H", "I", "/", "A", "D", "M", "/", "0", "0", "6", "9", "7", "8", "6", "7">>,  \* 'HI/ADM/00697867'
    <<"S", "R", "2", "1", "5", "5", "7", "6">>,  \* 'SR215576'
    <<"S", "S", "O", "-", "J", "B", "T", "K", "R", "H", "S", "0", "0", "2", "F", "-", "D", "W", "D", "M", "1", "0">>,  \* 'SSO-JBTKRHS002F-DWDM10'
    <<"4", "4", "3", "4", "6", "3", "8", "1", "7">>,  \* '443463817'
    <<"4", "4", "5", "5", "9", "7", "8", "1", "4">>,  \* '445597814'
    <<"4", "4", "3", "9", "1", "9", "4", "8", "9">>,  \* '443919489'
    <<"4", "4", "5", "9", "7", "9", "6", "9", "8">>,  \* '445979698'
    <<"4", "4", "3", "8", "3", "2", "7", "9", "9">>,  \* '443832799'
    <<"F", "R", "O", "2", "0", "0", "7", "1", "3", "3", "5", "0", "8">>,  \* 'FRO2007133508'
    <<"W", "1", "E", "3", "2", "0", "9", "2">>,  \* 'W1E32092'
    <<"N", "9", "6", "7", "5", "4", "7", "4", "L">>,  \* 'N9675474L'
    <<"N", "2", "8", "6", "4", "4", "7", "7", "L">>  \* 'N2864477L'
  >>

\* media_chronics_hardcoded
media_chronics_hardcoded ==
  <<
    ID_VID_1583,  \* 'VID-1583'
    <<"V", "I", "D", "-", "1", "5", "9", "7">>,  \* 'VID-1597'
    <<"V", "I", "D", "-", "1", "5", "9", "8">>,  \* 'VID-1598'
    <<"V", "I", "D", "-", "1", "5", "7", "4">>,  \* 'VID-1574'
    <<"V", "I", "D", "-", "1", "5", "7", "5">>,  \* 'VID-1575'
    <<"V", "I", "D", "-", "1", "5", "8", "1">>,  \* 'VID-1581'
    <<"V", "I", "D", "-", "1", "5", "8", "2">>,  \* 'VID-1582'
    <<"V", "I", "D", "-", "1", "1", "4", "6">>,  \* 'VID-1146'
    <<"V", "I", "D", "-", "1", "5", "2", "5">>,  \* 'VID-1525'
    <<"V", "I", "D", "-", "1", "5", "3", "0">>,  \* 'VID-1530'
    <<"V", "I", "D", "-", "0", "8", "7", "5">>  \* 'VID-0875'
  >>

perf_60_day == <<ID_444089285, ID_444089468>>

perf_30_day == <<ID_445082297>>

\* completed_progression_circuits
completed_progression_circuits == perf_30_day \o <<ID_444282783>>

(***************************************************************************)
(* Reporting periods (month_str) and the snapshot file names made of them. *)
(***************************************************************************)
M_January_2025 == <<"J", "a", "n", "u", "a", "r", "y", "_", "2", "0", "2", "5">>

M_February_2025 == <<"F", "e", "b", "r", "u", "a", "r", "y", "_", "2", "0", "2", "5">>

M_March_2025 == <<"M", "a", "r", "c", "h", "_", "2", "0", "2", "5">>

M_April_2025 == <<"A", "p", "r", "i", "l", "_", "2", "0", "2", "5">>

M_May_2025 == <<"M", "a", "y", "_", "2", "0", "2", "5">>

M_June_2025 == <<"J", "u", "n", "e", "_", "2", "0", "2", "5">>

M_July_2025 == <<"J", "u", "l", "y", "_", "2", "0", "2", "5">>

\* The month names load_baseline_status looks for in a snapshot's file name.
CutoverMonths ==
  <<M_May_2025, M_January_2025, M_February_2025, M_March_2025, M_April_2025>>

\* The canonical ids of the names the source and the inputs hold, computed
\* once.
CanonTable ==
  [n \in {all_chronic_circuits[i] : i \in 1..Len(all_chronic_circuits)}
          \cup {media_chronics_hardcoded[i] : i \in 1..Len(media_chronics_hardcoded)}
          \cup {ID_445082297, ID_444282783, ID_444089285, ID_444089468,
                ID_091NOID1143035717419, ID_091NOID1143035717419_1040578}
     |-> canonical_id(PyStr(n))]

\* canonical_id(name) for a str
CanonicalOf(name) ==
  IF name \in DOMAIN CanonTable THEN CanonTable[name] ELSE canonical_id(PyStr(name))

(***************************************************************************)
(* More str helpers                                                        *)
(***************************************************************************)
\* needle in hay
Contains(hay, needle) ==
  \E i \in 0..Len(hay) :
    /\ i + Len(needle) <= Len(hay)
    /\ SubSeq(hay, i + 1, i + Len(needle)) = needle

\* s.startswith(p)
StartsWith(s, p) == Len(s) >= Len(p) /\ SubSeq(s, 1, Len(p)) = p

\* The characters of the modelled names in code point order.
CodePointOrder ==
  <<" ", "#", "-", ".", "/",
    "0", "1", "2", "3", "4", "5", "6", "7", "8", "9",
    "A", "B", "C", "D", "E", "F", "G", "H", "I", "J", "K", "L", "M",
    "N", "O", "P", "Q", "R", "S", "T", "U", "V", "W", "X", "Y", "Z", "_",
    "a", "b", "c", "d", "e", "f", "g", "h", "i", "j", "k", "l", "m",
    "n", "o", "p", "q", "r", "s", "t", "u", "v", "w", "x", "y", "z">>

OrdTable ==
  [c \in {CodePointOrder[i] : i \in 1..Len(CodePointOrder)} |->
     CHOOSE i \in 1..Len(CodePointOrder) : CodePointOrder[i] = c]

\* a < b for two str
RECURSIVE StrLess(_, _)
StrLess(a, b) ==
  IF b = << >> THEN FALSE
  ELSE IF a = << >> THEN TRUE
  ELSE IF Head(a) = Head(b) THEN StrLess(Tail(a), Tail(b))
  ELSE OrdTable[Head(a)] < OrdTable[Head(b)]

\* sorted(S) for a set of str
RECURSIVE SortedStrs(_)
SortedStrs(S) ==
  IF S = {} THEN << >>
  ELSE LET m == CHOOSE x \in S : \A y \in S \ {x} : StrLess(x, y)
       IN  <<m>> \o SortedStrs(S \ {m})

\* The elements of a list, as a set.
Elems(l) == {l[i] : i \in 1..Len(l)}

\* list(set(l)): the distinct elements of l.  The source does not fix their
\* order; the model lists them by first appearance.
RECURSIVE ListOfSet(_)
ListOfSet(l) ==
  IF l = << >> THEN << >>
  ELSE LET rest == ListOfSet(SubSeq(l, 1, Len(l) - 1))
           x == l[Len(l)]
       IN  IF x \in Elems(rest) THEN rest ELSE Append(rest, x)

(***************************************************************************)
(* A Python dict: the sequence of its <<key, value>> pairs in insertion    *)
(* order.                                                                  *)
(***************************************************************************)
DictHas(d, k) == \E i \in 1..Len(d) : d[i][1] = k

DictGet(d, k) == d[CHOOSE i \in 1..Len(d) : d[i][1] = k][2]

\* d[k] = v
DictSet(d, k, v) ==
  IF DictHas(d, k)
    THEN [i \in 1..Len(d) |-> IF d[i][1] = k THEN <<k, v>> ELSE d[i]]
    ELSE Append(d, <<k, v>>)

(***************************************************************************)
(* load_baseline_status                                                    *)
(***************************************************************************)
CID_TEST == <<"C", "I", "D", "_", "T", "E", "S", "T">>

STATUS_CONSISTENT   == "Consistent"
STATUS_INCONSISTENT == "Inconsistent"
STATUS_MEDIA        == "Media Chronic"
STATUS_PENDING      == "pending_promotion"

\* The locals of load_baseline_status: baseline_status, baseline_ids,
\* cutover_found, the loop variable `canonical` (unbound until first
\* assigned) and whether an exception has left the outer try block.
LoaderStart ==
  [status |-> << >>, ids |-> {}, cutover_found |-> FALSE,
   canonical |-> [bound |-> FALSE, v |-> << >>], raised |-> FALSE]

\* One list of the frozen legacy file (lines 194-198, 200-204): test circuits
\* are skipped, the others are mapped and added to the id set.
\* The assignment that leaves baseline_ids alone (mutant).
SetStatusNoIds(st, k, status) ==
  [st EXCEPT !.status = DictSet(@, k, status),
             !.canonical = [bound |-> TRUE, v |-> k]]

\* canonical = ...; baseline_status[canonical] = status;
\* baseline_ids.add(canonical)
SetStatus(st, k, status) ==
  [st EXCEPT !.status = DictSet(@, k, status),
             !.ids = @ \cup {k},
             !.canonical = [bound |-> TRUE, v |-> k]]

RECURSIVE FrozenList(_, _, _)
FrozenList(st, circuits, status) ==
  IF circuits = << >> THEN st
  ELSE IF StartsWith(Head(circuits), CID_TEST)
         THEN FrozenList(st, Tail(circuits), status)
         ELSE FrozenList(SetStatus(st, CanonicalOf(Head(circuits)), status),
                         Tail(circuits), status)

\* The media list of the frozen legacy file (lines 206-210): the id set is
\* added to on every iteration, from whatever `canonical` then holds; using
\* it unbound raises.
\* Lines 208-209: canonical = ...; baseline_status[canonical] = 'Media Chronic'
SetMediaStatus(st, k) ==
  [st EXCEPT !.status = DictSet(@, k, STATUS_MEDIA),
             !.canonical = [bound |-> TRUE, v |-> k]]

\* Line 210: baseline_ids.add(canonical), whatever `canonical` holds.
AddCanonicalToIds(st) ==
  IF st.canonical.bound
    THEN [st EXCEPT !.ids = @ \cup {st.canonical.v}]
    ELSE [st EXCEPT !.raised = TRUE]

RECURSIVE FrozenMediaList(_, _)
FrozenMediaList(st, circuits) ==
  IF circuits = << >> \/ st.raised THEN st
  ELSE FrozenMediaList(
         AddCanonicalToIds(IF StartsWith(Head(circuits), CID_TEST) THEN st
                           ELSE SetMediaStatus(st, CanonicalOf(Head(circuits)))),
         Tail(circuits))

\* Lines 188-213: the frozen legacy list, when the file exists.
\* Line 212: cutover_found = True, unless an exception left the block before.
SetCutoverFound(st) ==
  IF st.raised THEN st ELSE [st EXCEPT !.cutover_found = TRUE]

LoadFrozen(st, frozen_data) ==
  SetCutoverFound(
    FrozenMediaList(
      FrozenList(
        FrozenList(st, frozen_data.chronic_consistent, STATUS_CONSISTENT),
        frozen_data.chronic_inconsistent, STATUS_INCONSISTENT),
      frozen_data.media_chronics))

\* One list of a snapshot's existing_chronics (lines 241-255).
RECURSIVE SnapshotList(_, _, _)
SnapshotList(st, circuits, status) ==
  IF circuits = << >> THEN st
  ELSE SnapshotList(SetStatus(st, CanonicalOf(Head(circuits)), status),
                    Tail(circuits), status)

\* Lines 233-234: the file name holds the name of a month up to May 2025.
IsCutoverFile(month_str) ==
  \E i \in 1..Len(CutoverMonths) : Contains(month_str, CutoverMonths[i])

\* Lines 258-268: the new chronics of the snapshot become pending
\* promotions; the loop over the provider groups is left after the first.
LoadNewChronics(st, new_chronics_data) ==
  IF new_chronics_data = << >> THEN st
  ELSE SnapshotList(st, new_chronics_data[1][2], STATUS_PENDING)

\* The loop body reading no statuses, only the new chronics (mutant).
LoadSnapshotFileNewChronicsOnly(st, file) ==
  LoadNewChronics(st, file.data.new_chronics)

\* Lines 226-271: the body of the loop over the snapshot files.
LoadSnapshotFile(st, file) ==
  LoadNewChronics(
    IF IsCutoverFile(file.name)
      THEN SnapshotList(
             SnapshotList(
               SnapshotList([st EXCEPT !.cutover_found = TRUE],
                            file.data.existing_chronics.chronic_consistent,
                            STATUS_CONSISTENT),
               file.data.existing_chronics.chronic_inconsistent,
               STATUS_INCONSISTENT),
             file.data.existing_chronics.media_chronics, STATUS_MEDIA)
      ELSE st,
    file.data.new_chronics)

\* json_files.sort(): the snapshot files in the order of their names.
FilesNamed(files, names) ==
  [i \in 1..Len(names) |-> CHOOSE f \in files : f.name = names[i]]

SortedFiles(files) == FilesNamed(files, SortedStrs({f.name : f \in files}))

RECURSIVE LoadSnapshotFiles(_, _)
LoadSnapshotFiles(st, files) ==
  IF files = << >> THEN st
  ELSE LoadSnapshotFiles(LoadSnapshotFile(st, Head(files)), Tail(files))

\* load_baseline_status: the frozen legacy list when it exists, else the scan
\* of the snapshot files; what it returns and the flag it stores.
\* Lines 219-271: the fallback scan, unless the frozen list was loaded or an
\* exception was caught.
ScanUnlessFound(st, files) ==
  IF st.raised \/ st.cutover_found THEN st
  ELSE LoadSnapshotFiles(st, SortedFiles(files))

\* The result with the flag always set (mutant).
LoaderResultFound(st) ==
  [baseline_status |-> st.status, baseline_ids |-> st.ids, baseline_found |-> TRUE]

\* Lines 277-279
LoaderResult(st) ==
  [baseline_status |-> st.status, baseline_ids |-> st.ids,
   baseline_found |-> st.cutover_found]

load_baseline_status(frozen_file, files) ==
  LoaderResult(
    ScanUnlessFound(IF frozen_file.exists
                      THEN LoadFrozen(LoaderStart, frozen_file.data)
                      ELSE LoaderStart,
                    files))

(***************************************************************************)
(* load_crosstab_data                                                      *)
(***************************************************************************)
UNKNOWN_PROVIDER == <<"U", "n", "k", "n", "o", "w", "n", " ", "P", "r", "o", "v", "i", "d", "e", "r">>

\* df[~df['Config Item Name'].str.startswith('CID_TEST', na=False)]
RECURSIVE DropTestRows(_)
DropTestRows(rows) ==
  IF rows = << >> THEN << >>
  ELSE IF StartsWith(Head(rows)[COL_NAME], CID_TEST)
         THEN DropTestRows(Tail(rows))
         ELSE <<Head(rows)>> \o DropTestRows(Tail(rows))

\* df['canonical_id'] = df['Config Item Name'].apply(canonical_id)
AddCanonicalId(df) ==
  [columns |-> df.columns \cup {COL_CANON},
   rows |-> [i \in 1..Len(df.rows) |->
               df.rows[i] @@ (COL_CANON :> CanonicalOf(df.rows[i][COL_NAME]))]]

\* load_crosstab_data: both files lose their test circuits and gain the
\* canonical_id column.
load_crosstab_data(impacts_file, counts_file) ==
  [impacts_df |-> AddCanonicalId([impacts_file EXCEPT !.rows = DropTestRows(@)]),
   counts_df  |-> AddCanonicalId([counts_file EXCEPT !.rows = DropTestRows(@)])]

(***************************************************************************)
(* process_chronic_logic                                                   *)
(***************************************************************************)
\* The rows the outer merge makes for one key: every pairing of the key's
\* impacts rows with its counts rows, or the rows of the one side padded with
\* NaN; the two canonical_id columns get the suffixes _x and _y, and
\* fillna gives 'COUNTD Months' 0 and the provider 'Unknown Provider'.
MergedRow(l, r) ==
  (COL_NAME :> l[COL_NAME]) @@ (COL_TICKETS :> l[COL_TICKETS]) @@
  (COL_PROVIDER :> l[COL_PROVIDER]) @@ (COL_CANON_X :> Cell(l[COL_CANON])) @@
  (COL_MONTHS :> r[COL_MONTHS]) @@ (COL_CANON_Y :> Cell(r[COL_CANON]))

LeftOnlyRow(l) ==
  (COL_NAME :> l[COL_NAME]) @@ (COL_TICKETS :> l[COL_TICKETS]) @@
  (COL_PROVIDER :> l[COL_PROVIDER]) @@ (COL_CANON_X :> Cell(l[COL_CANON])) @@
  (COL_MONTHS :> Cell(0)) @@ (COL_CANON_Y :> NaN)

RightOnlyRow(r) ==
  (COL_NAME :> r[COL_NAME]) @@ (COL_TICKETS :> NaN) @@
  (COL_PROVIDER :> UNKNOWN_PROVIDER) @@ (COL_CANON_X :> NaN) @@
  (COL_MONTHS :> r[COL_MONTHS]) @@ (COL_CANON_Y :> Cell(r[COL_CANON]))

RECURSIVE PairRows(_, _, _)
PairRows(L, R, all_R) ==
  IF L = << >> THEN << >>
  ELSE IF R = << >> THEN PairRows(Tail(L), all_R, all_R)
  ELSE <<MergedRow(Head(L), Head(R))>> \o PairRows(L, Tail(R), all_R)

\* L and R: the rows of the key in the left and in the right frame.
JoinRows(L, R) ==
  IF R = << >> THEN [i \in 1..Len(L) |-> LeftOnlyRow(L[i])]
  ELSE IF L = << >> THEN [i \in 1..Len(R) |-> RightOnlyRow(R[i])]
  ELSE PairRows(L, R, R)

RowsForKey(impacts_df, counts_df, key) ==
  JoinRows(SelectEq(impacts_df.rows, COL_NAME, key),
           SelectEq(counts_df.rows, COL_NAME, key))

RECURSIVE RowsForKeys(_, _, _)
RowsForKeys(impacts_df, counts_df, keys) ==
  IF keys = << >> THEN << >>
  ELSE RowsForKey(impacts_df, counts_df, Head(keys))
         \o RowsForKeys(impacts_df, counts_df, Tail(keys))

\* pd.merge(impacts_df, counts_df, on='Config Item Name', how='outer')
\* .fillna(...): the keys of both frames in sorted order.
merge_outer(impacts_df, counts_df) ==
  [columns |-> {COL_NAME, COL_TICKETS, COL_PROVIDER, COL_MONTHS,
                COL_CANON_X, COL_CANON_Y},
   rows |-> RowsForKeys(
              impacts_df, counts_df,
              SortedStrs({impacts_df.rows[i][COL_NAME] : i \in 1..Len(impacts_df.rows)}
                         \cup {counts_df.rows[i][COL_NAME] : i \in 1..Len(counts_df.rows)}))]

\* raw_counts.get(canonical, 0), raw_counts being the sum of the ticket column
\* of impacts_df grouped by its canonical_id column.
raw_counts_get(impacts_df, canonical) ==
  SumField(SelectEq(impacts_df.rows, COL_CANON, canonical), COL_TICKETS)

\* The names of merged_df whose canonical id is the given one.
RECURSIVE NamesWithCanonical(_, _)
NamesWithCanonical(names, canonical) ==
  IF names = << >> THEN << >>
  ELSE IF CanonicalOf(Head(names)) = canonical
         THEN <<Head(names)>> \o NamesWithCanonical(Tail(names), canonical)
         ELSE NamesWithCanonical(Tail(names), canonical)

\* Lines 329-332: for every pending_promotion entry of the baseline, in
\* the order of the dict, the names of merged_df it stands for.
RECURSIVE pending_promotion_circuits(_, _)
pending_promotion_circuits(baseline_status, names) ==
  IF baseline_status = << >> THEN << >>
  ELSE (IF Head(baseline_status)[2] = STATUS_PENDING
          THEN NamesWithCanonical(names, Head(baseline_status)[1])
          ELSE << >>)
       \o pending_promotion_circuits(Tail(baseline_status), names)

\* The ticket rule with a strict comparison (mutant).
TicketRuleStrict(rolling_tickets, threshold) ==
  IF rolling_tickets > threshold THEN "consistent" ELSE "inconsistent"

\* Lines 356-361 and 374-379: the ticket rule.
TicketRule(rolling_tickets, threshold) ==
  IF rolling_tickets >= threshold THEN "consistent" ELSE "inconsistent"

\* Classification that never consults the baseline (mutant).
HybridStatusTicketsOnly(baseline_status, canonical, rolling_tickets, threshold) ==
  TicketRule(rolling_tickets, threshold)

\* Classification that re-evaluates a baseline 'Consistent' by the ticket
\* rule (mutant).
HybridStatusConsistentByTickets(baseline_status, canonical, rolling_tickets, threshold) ==
  IF DictHas(baseline_status, canonical)
    THEN LET status == DictGet(baseline_status, canonical)
         IN  IF status \in {STATUS_PENDING, STATUS_CONSISTENT}
               THEN TicketRule(rolling_tickets, threshold)
             ELSE IF status = STATUS_INCONSISTENT THEN "inconsistent"
             ELSE IF status = STATUS_MEDIA THEN "media chronic"
             ELSE "unset"
    ELSE TicketRule(rolling_tickets, threshold)

\* Lines 351-379: the status one roster circuit gets.
HybridStatus(baseline_status, canonical, rolling_tickets, threshold) ==
  IF DictHas(baseline_status, canonical)
    THEN LET status == DictGet(baseline_status, canonical)
         IN  IF status = STATUS_PENDING
               THEN TicketRule(rolling_tickets, threshold)
             ELSE IF status = STATUS_CONSISTENT THEN "consistent"
             ELSE IF status = STATUS_INCONSISTENT THEN "inconsistent"
             ELSE IF status = STATUS_MEDIA THEN "media chronic"
             ELSE "unset"
    ELSE TicketRule(rolling_tickets, threshold)

\* Lines 343-379 for one roster circuit: its entry of circuit_ticket_data and,
\* by the status, the list it is appended to.
TicketEntry(circuit_id, canonical, rolling_tickets, raw_tickets, baseline_status, threshold) ==
  [circuit_id |-> circuit_id,
   rolling_ticket_total |-> rolling_tickets,
   raw_ticket_count_crosstab |-> raw_tickets,
   status |-> HybridStatus(baseline_status, canonical, rolling_tickets, threshold)]

ClassifyCanonical(circuit_id, canonical, baseline_status, merged_df, impacts_df, threshold) ==
  TicketEntry(circuit_id, canonical, get_rolling_ticket_total(canonical, merged_df),
              raw_counts_get(impacts_df, canonical), baseline_status, threshold)

ClassifyCircuit(circuit_id, baseline_status, merged_df, impacts_df, threshold) ==
  ClassifyCanonical(circuit_id, CanonicalOf(circuit_id), baseline_status, merged_df,
                    impacts_df, threshold)

\* The circuits of the classified roster that got the given status, in the
\* order of the roster.
CircuitIds(entries) == [i \in 1..Len(entries) |-> entries[i].circuit_id]

Appended(classified, status) ==
  CircuitIds(SelectSeq(classified, LAMBDA e : e.status = status))

\* Lines 341-379: the loop over the roster.  No iteration reads what an
\* earlier one wrote, so the three lists are the roster filtered by status
\* and circuit_ticket_data holds one entry per distinct circuit id, in the
\* order of first appearance.
\* The positions at which the circuits of the roster first appear.
FirstAppearances(circuits) ==
  SelectSeq([i \in 1..Len(circuits) |-> i],
            LAMBDA i : \A j \in 1..(i - 1) : circuits[j] # circuits[i])

\* circuit_ticket_data[circuit_id] = {...}; `first` holds the positions of
\* the entries kept.
CircuitTicketData(classified, first) ==
  [k \in 1..Len(first) |->
     <<classified[first[k]].circuit_id,
       [rolling_ticket_total |-> classified[first[k]].rolling_ticket_total,
        raw_ticket_count_crosstab |-> classified[first[k]].raw_ticket_count_crosstab,
        status |-> classified[first[k]].status]>>]

ClassifiedLists(circuits, classified) ==
  [chronic_consistent |-> Appended(classified, "consistent"),
   chronic_inconsistent |-> Appended(classified, "inconsistent"),
   media_chronics_hybrid |-> Appended(classified, "media chronic"),
   circuit_ticket_data |-> CircuitTicketData(classified, FirstAppearances(circuits))]

ClassifyLoop(circuits, baseline_status, merged_df, impacts_df, threshold) ==
  ClassifiedLists(
    circuits,
    [i \in 1..Len(circuits) |->
       ClassifyCircuit(circuits[i], baseline_status, merged_df, impacts_df,
                       threshold)] \o << >>)

\* s.replace('/', '').replace('-', '').replace(' ', '').replace('_', '')
RECURSIVE WithoutSeparators(_)
WithoutSeparators(s) ==
  IF s = << >> THEN << >>
  ELSE IF Head(s) \in {"/", "-", " ", "_"} THEN WithoutSeparators(Tail(s))
  ELSE <<Head(s)>> \o WithoutSeparators(Tail(s))

S_419 == <<"4", "1", "9">>

ID_LD017936 == <<"L", "D", "0", "1", "7", "9", "3", "6">>

\* Lines 435-463: circuit_name counts as a variation of the existing circuit.
PartsMatch(circuit_parts, existing_parts) ==
  /\ Len(circuit_parts) > 5
  /\ Len(existing_parts) > 5
  /\ \/ Contains(existing_parts, circuit_parts)
     \/ Contains(circuit_parts, existing_parts)

IsVariationOf(circuit_name, existing_str) ==
      \/ PartsMatch(WithoutSeparators(circuit_name), WithoutSeparators(existing_str))
      \/ Contains(circuit_name, S_419) /\ Contains(existing_str, S_419)
      \/ /\ Contains(circuit_name, ID_091NOID1143035717419_1040578)
         /\ Contains(existing_str, ID_091NOID1143035717419_889599)
      \/ /\ Contains(circuit_name, ID_LD017936)
         /\ Contains(existing_str, ID_LD017936)
         /\ circuit_name # existing_str

\* The names the variation filter is asked about and the names it compares
\* them with, when both come from the lists of the source.
VariationExisting ==
  Elems(all_chronic_circuits) \cup Elems(media_chronics_hardcoded)
    \cup Elems(completed_progression_circuits)

VariationTable ==
  [c \in Elems(completed_progression_circuits) |-> {e \in VariationExisting : IsVariationOf(c, e)}]

\* The filter that finds no variation (mutant).
is_variation_never(circuit_name, all_existing_chronics) == FALSE

\* Lines 430-471 for one row, self.exclude_regional being False.
is_variation(circuit_name, all_existing_chronics) ==
  \E e \in Elems(all_existing_chronics) :
    IF circuit_name \in DOMAIN VariationTable /\ e \in VariationExisting
      THEN e \in VariationTable[circuit_name]
      ELSE IsVariationOf(circuit_name, e)

\* drop_duplicates(subset=['Config Item Name']): the first row of each name.
RECURSIVE DropDuplicateNames(_, _)
DropDuplicateNames(rows, seen) ==
  IF rows = << >> THEN << >>
  ELSE IF Head(rows)[COL_NAME] \in seen THEN DropDuplicateNames(Tail(rows), seen)
  ELSE <<Head(rows)>> \o DropDuplicateNames(Tail(rows), seen \cup {Head(rows)[COL_NAME]})

\* The values of 'Config Item Name' in order of first appearance.
NamesOf(rows) == [i \in 1..Len(rows) |-> rows[i][COL_NAME]]

UniqueNames(rows) == NamesOf(DropDuplicateNames(rows, {}))

\* Lines 409-411: the rows at their third month whose name is in no bucket.
AtThirdMonthNotExisting(rows, all_existing_chronics) ==
  SelectSeq(rows, LAMBDA row : /\ row[COL_MONTHS] = Cell(3)
                               /\ row[COL_NAME] \notin Elems(all_existing_chronics))

RECURSIVE KeepCompleted(_, _)
KeepCompleted(rows, completed) ==
  IF rows = << >> THEN << >>
  ELSE IF Head(rows)[COL_NAME] \in Elems(completed)
         THEN <<Head(rows)>> \o KeepCompleted(Tail(rows), completed)
         ELSE KeepCompleted(Tail(rows), completed)

RECURSIVE DropVariations(_, _)
DropVariations(rows, all_existing_chronics) ==
  IF rows = << >> THEN << >>
  ELSE IF is_variation(Head(rows)[COL_NAME], all_existing_chronics)
         THEN DropVariations(Tail(rows), all_existing_chronics)
         ELSE <<Head(rows)>> \o DropVariations(Tail(rows), all_existing_chronics)

\* Lines 484-486
\* baseline_status.get(k) == 'pending_promotion'
IsPending(baseline_status, k) ==
  DictHas(baseline_status, k) /\ DictGet(baseline_status, k) = STATUS_PENDING

promoted_circuits(circuits, baseline_status) ==
  SelectSeq(circuits, LAMBDA c : IsPending(baseline_status, CanonicalOf(c)))

RECURSIVE DropNamed(_, _)
DropNamed(rows, names) ==
  IF rows = << >> THEN << >>
  ELSE IF Head(rows)[COL_NAME] \in names THEN DropNamed(Tail(rows), names)
  ELSE <<Head(rows)>> \o DropNamed(Tail(rows), names)

RECURSIVE GroupsByProvider(_, _)
GroupsByProvider(rows, providers) ==
  IF providers = << >> THEN << >>
  ELSE <<<<Head(providers), NamesOf(SelectEq(rows, COL_PROVIDER, Head(providers)))>>>>
       \o GroupsByProvider(rows, Tail(providers))

\* Lines 488-496: groupby(provider)['Config Item Name'].apply(unique list)
\* .to_dict(), the groups in the sorted order of their keys.
new_chronic_summary(rows) ==
  GroupsByProvider(rows, SortedStrs({rows[i][COL_PROVIDER] : i \in 1..Len(rows)}))

\* Lines 498-516: the counts and the dict returned.
ChronicData(merged_df, circuit_ticket_data, existing_chronics, new_chronics, remaining_new_chronics, total_promoted) ==
  [total_chronic_circuits |->
     Len(existing_chronics.chronic_consistent)
       + Len(existing_chronics.chronic_inconsistent) + total_promoted,
   media_chronics |-> Len(existing_chronics.media_chronics),
   new_chronics |-> new_chronic_summary(remaining_new_chronics),
   new_chronic_count |->
     IF Len(new_chronics) >= total_promoted
       THEN Len(new_chronics) - total_promoted ELSE 0,
   existing_chronics |-> existing_chronics,
   updated_perf_30_day |-> perf_60_day,
   updated_perf_60_day |-> << >>,
   circuit_ticket_data |-> circuit_ticket_data,
   merged_data |-> merged_df]

\* Lines 484-496: the promoted circuits leave the new chronics.
WithPromoted(merged_df, circuit_ticket_data, existing_chronics, new_chronics, promoted) ==
  ChronicData(merged_df, circuit_ticket_data, existing_chronics, new_chronics,
              DropNamed(new_chronics, Elems(promoted)), Len(promoted))

\* Lines 409-471: the new chronics, all_existing_chronics being the three
\* lists of the circuits classified.
FindNewChronics(rows, all_existing_chronics) ==
  DropVariations(
    KeepCompleted(
      DropDuplicateNames(AtThirdMonthNotExisting(rows, all_existing_chronics), {}),
      completed_progression_circuits),
    all_existing_chronics)

WithExisting(merged_df, baseline_status, roster, circuit_ticket_data, existing_chronics) ==
  WithPromoted(merged_df, circuit_ticket_data, existing_chronics,
               FindNewChronics(merged_df.rows,
                               existing_chronics.chronic_consistent
                                 \o existing_chronics.chronic_inconsistent
                                 \o existing_chronics.media_chronics),
               promoted_circuits(roster, baseline_status))

\* Lines 382-403: the media list and the dict of the existing chronics.
WithClassified(merged_df, baseline_status, roster, classified) ==
  WithExisting(merged_df, baseline_status, roster, classified.circuit_ticket_data,
               [chronic_consistent |-> classified.chronic_consistent,
                chronic_inconsistent |-> classified.chronic_inconsistent,
                media_chronics |-> ListOfSet(classified.media_chronics_hybrid
                                             \o media_chronics_hardcoded),
                perf_60_day |-> perf_60_day,
                perf_30_day |-> perf_30_day])

\* Lines 341-379 onwards, for the roster built.  The result holds the
\* returned dict and, for inspection, the baseline loaded and the roster
\* classified.
WithRoster(merged_df, impacts, loaded, roster, consistent_threshold) ==
  [baseline |-> loaded,
   all_chronic_circuits |-> roster,
   chronic_data |->
     WithClassified(merged_df, loaded.baseline_status, roster,
                    ClassifyLoop(roster, loaded.baseline_status, merged_df, impacts,
                                 consistent_threshold))]

\* Lines 311-333: the roster is the hardcoded list and the pending
\* promotions of the baseline.
ProcessLoaded(merged_df, impacts, loaded, consistent_threshold) ==
  WithRoster(merged_df, impacts, loaded,
             all_chronic_circuits
               \o pending_promotion_circuits(loaded.baseline_status,
                                             UniqueNames(merged_df.rows)),
             consistent_threshold)

\* process_chronic_logic, with what it reads from disk and from the
\* configuration as arguments.
process_chronic_logic(impacts, counts, frozen, files, consistent_threshold) ==
  ProcessLoaded(merge_outer(impacts, counts), impacts,
                load_baseline_status(frozen, files), consistent_threshold)

(***************************************************************************)
(* build_monthly_report                                                    *)
(***************************************************************************)
\* f"chronic_summary_{month_str}.json"
SummaryFileName(month) ==
  <<"c", "h", "r", "o", "n", "i", "c", "_", "s", "u", "m", "m", "a", "r", "y", "_">>
    \o month \o <<".", "j", "s", "o", "n">>

\* The summary file of a period: of the chronic_data it holds, the buckets and
\* new chronics that load_baseline_status reads back, and the audit data.
SummaryFile(month, data) ==
  [name |-> SummaryFileName(month),
   data |-> [existing_chronics |-> data.existing_chronics,
             new_chronics |-> data.new_chronics,
             circuit_ticket_data |-> data.circuit_ticket_data]]

\* open(path, 'w'): a file of that name is replaced.
WriteFile(files, file) == {f \in files : f.name # file.name} \cup {file}

\* The chronic_summary files other than the one of the current period.
OtherSummaries(files, current_month_str) ==
  {f \in files : f.name # SummaryFileName(current_month_str)}

\* sorted(json_files)[-1]
LastSorted(sorted_files) == sorted_files[Len(sorted_files)]

\* Lines 972-980: without the current period's file the analysis is given
\* up; else both files are loaded and compared.
CompareWith(previous_file, current_files) ==
  IF current_files = {}
    THEN [outcome |-> "Current month data not found", previous |-> << >>,
          current |-> << >>]
    ELSE [outcome |-> "analysis", previous |-> previous_file.name,
          current |-> (CHOOSE f \in current_files : TRUE).data]

\* generate_trend_analysis(current_month_str, output_dir) on the files of
\* the output directory: the outcome, the name of the previous file and the
\* data read as the current period's.
generate_trend_analysis(current_month_str, files) ==
  IF OtherSummaries(files, current_month_str) = {}
    THEN [outcome |-> "No previous month data available", previous |-> << >>,
          current |-> << >>]
    ELSE CompareWith(LastSorted(SortedFiles(OtherSummaries(files, current_month_str))),
                     {f \in files : f.name = SummaryFileName(current_month_str)})

(***************************************************************************)
(* The pipeline: inputs                                                    *)
(***************************************************************************)
P_PCCW == <<"P", "C", "C", "W">>

P_Tata == <<"T", "a", "t", "a">>

P_Lumen == <<"L", "u", "m", "e", "n">>

MaxRows == 2

ImpactRow(n, k, p) ==
  (COL_NAME :> n) @@ (COL_TICKETS :> Cell(k)) @@ (COL_PROVIDER :> p)

\* The rows an impacts export is made of, in the order of their names.
ImpactRowChoices ==
  <<ImpactRow(ID_091NOID1143035717419_889599, 6, P_Tata),
    ImpactRow(ID_445082297, 5, P_Lumen),
    ImpactRow(ID_445082297, 6, P_Lumen),
    ImpactRow(ID_SR216187, 5, P_PCCW),
    ImpactRow(ID_SR216187, 6, P_PCCW)>>

ImpactFiles ==
  {[columns |-> {COL_NAME, COL_TICKETS, COL_PROVIDER},
    rows |-> [i \in 1..Len(ix) |-> ImpactRowChoices[ix[i]]]] :
     ix \in {s \in SeqsUpTo(1..Len(ImpactRowChoices), MaxRows) :
               \A i \in 1..Len(s) : i = Len(s) \/ s[i] <= s[i + 1]}}

CountRow(n, m) == (COL_NAME :> n) @@ (COL_MONTHS :> Cell(m))

CountFiles ==
  {[columns |-> {COL_NAME, COL_MONTHS}, rows |-> rows] :
     rows \in {<< >>, <<CountRow(ID_445082297, 3)>>}}

FrozenFile(consistent, inconsistent, media) ==
  [exists |-> TRUE,
   data |-> [chronic_consistent |-> consistent, chronic_inconsistent |-> inconsistent,
             media_chronics |-> media]]

FrozenFiles ==
  {FrozenFile(<<ID_SR216187>>, <<ID_091NOID1143035717419_889599>>, <<ID_VID_1583>>),
   FrozenFile(<<ID_091NOID1143035717419_889599>>, <<ID_SR216187>>, << >>),
   FrozenFile(<< >>, << >>, <<ID_SR216187>>)}

OldSummary(month, consistent, inconsistent, media, new) ==
  [name |-> SummaryFileName(month),
   data |-> [existing_chronics |->
               [chronic_consistent |-> consistent, chronic_inconsistent |-> inconsistent,
                media_chronics |-> media, perf_60_day |-> << >>, perf_30_day |-> << >>],
             new_chronics |-> new,
             circuit_ticket_data |-> << >>]]

\* What earlier use may have left in ./final_output.
OldOutputs ==
  {{},
   {OldSummary(M_March_2025, <<ID_SR216187>>, <<ID_091NOID1143035717419_889599>>,
               <<ID_VID_1583>>, <<<<P_Lumen, <<ID_445082297>>>>>>)},
   {OldSummary(M_March_2025, << >>, <<ID_SR216187>>, << >>, << >>)}}

\* The consecutive reporting periods built.
Schedules == {<<M_April_2025, M_May_2025>>, <<M_June_2025, M_July_2025>>}

(***************************************************************************)
(* The pipeline: specification                                             *)
(***************************************************************************)
Init ==
  /\ CONSISTENT_THRESHOLD = DEFAULT_CONSISTENT_THRESHOLD
  /\ schedule \in Schedules
  /\ \/ frozen_legacy = NoFrozenFile /\ final_output \in OldOutputs
     \/ frozen_legacy \in FrozenFiles /\ final_output = {}
  /\ NotBuilt
  /\ CanonIdle
  /\ RollIdle
  /\ MetricsIdle

\* build_monthly_report for the next period of the schedule:
\* load_crosstab_data, process_chronic_logic on what it returned, the trend
\* analysis on the output directory as it is then (line 1886), and last the
\* summary written into ./final_output (lines 1903-1904).
BuildReport(impact_files, count_files) ==
  /\ schedule # << >>
  /\ \E impacts_file \in impact_files, counts_file \in count_files :
       \E dfs \in {load_crosstab_data(impacts_file, counts_file)} :
         \E built \in {process_chronic_logic(dfs.impacts_df, dfs.counts_df,
                                             frozen_legacy, final_output,
                                             CONSISTENT_THRESHOLD)} :
           /\ built_impacts' = dfs.impacts_df
           /\ built_counts' = dfs.counts_df
           /\ load_call' = "returned"
           /\ baseline' = built.baseline
           /\ all_circuits' = built.all_chronic_circuits
           /\ chronic_data' = built.chronic_data
           /\ trend_analysis' = generate_trend_analysis(Head(schedule), final_output)
           /\ final_output' = WriteFile(final_output,
                                        SummaryFile(Head(schedule), built.chronic_data))
  /\ built_month' = Head(schedule)
  /\ schedule' = Tail(schedule)
  /\ UNCHANGED <<CONSISTENT_THRESHOLD, frozen_legacy, canonVars, rollVars, metricVars>>

build_monthly_report == BuildReport(ImpactFiles, CountFiles)

Next == build_monthly_report

Spec == Init /\ [][Next]_vars

(***************************************************************************)
(* SpecNew: one build over exports whose circuits reach their third month, *)
(* with and without a snapshot that makes a circuit a pending promotion.   *)
(***************************************************************************)
ID_445082297_1 == <<"4", "4", "5", "0", "8", "2", "2", "9", "7", "-", "1">>

MaxNewRows == 2

NewImpactRowChoices ==
  <<ImpactRow(ID_444282783, 2, P_Lumen),
    ImpactRow(ID_445082297, 5, P_Lumen),
    ImpactRow(ID_445082297_1, 6, P_Tata)>>

NewImpactFiles ==
  {[columns |-> {COL_NAME, COL_TICKETS, COL_PROVIDER},
    rows |-> [i \in 1..Len(ix) |-> NewImpactRowChoices[ix[i]]]] :
     ix \in {s \in SeqsUpTo(1..Len(NewImpactRowChoices), MaxNewRows) :
               \A i \in 1..Len(s) : i = Len(s) \/ s[i] < s[i + 1]}}

NewCountRowChoices ==
  <<CountRow(ID_444282783, 3), CountRow(ID_445082297, 2), CountRow(ID_445082297, 3),
    CountRow(ID_445082297_1, 3), CountRow(ID_SR216187, 3)>>

NewCountFiles ==
  {[columns |-> {COL_NAME, COL_MONTHS},
    rows |-> [i \in 1..Len(ix) |-> NewCountRowChoices[ix[i]]]] :
     ix \in {s \in SeqsUpTo(1..Len(NewCountRowChoices), MaxNewRows) :
               \A i \in 1..Len(s) : i = Len(s) \/ s[i] < s[i + 1]}}

NewOutputs ==
  {{},
   {OldSummary(M_March_2025, << >>, << >>, << >>, <<<<P_Lumen, <<ID_445082297>>>>>>)},
   {OldSummary(M_March_2025, << >>, << >>, << >>, <<<<P_Tata, <<ID_445082297_1>>>>>>)}}

InitNew ==
  /\ CONSISTENT_THRESHOLD = DEFAULT_CONSISTENT_THRESHOLD
  /\ schedule = <<M_April_2025>>
  /\ frozen_legacy = NoFrozenFile
  /\ final_output \in NewOutputs
  /\ NotBuilt
  /\ CanonIdle
  /\ RollIdle
  /\ MetricsIdle

BuildNewChronics == BuildReport(NewImpactFiles, NewCountFiles)

NextNew == BuildNewChronics

SpecNew == InitNew /\ [][NextNew]_vars

(***************************************************************************)
(* The trend analysis of a build: specification                            *)
(***************************************************************************)
TrendMonths ==
  {M_March_2025, M_April_2025, M_May_2025, M_June_2025, M_July_2025}

\* One summary file for each month, left by earlier builds.
TrendSnapshots ==
  {OldSummary(m, <<ID_SR216187>>, << >>, <<ID_VID_1583>>, << >>) : m \in TrendMonths}

InitTrend ==
  /\ CONSISTENT_THRESHOLD = DEFAULT_CONSISTENT_THRESHOLD
  /\ schedule \in {<<M_May_2025>>, <<M_July_2025>>}
  /\ frozen_legacy = NoFrozenFile
  /\ final_output \in SUBSET TrendSnapshots
  /\ NotBuilt
  /\ CanonIdle
  /\ RollIdle
  /\ MetricsIdle

BuildWithTrend == BuildReport(ImpactFiles, CountFiles)

NextTrend == BuildWithTrend

SpecTrend == InitTrend /\ [][NextTrend]_vars

(***************************************************************************)
(* SpecLoad: load_baseline_status applied to a frozen legacy list, or to   *)
(* at most MaxSnapshots summary files of differing months.                 *)
(***************************************************************************)
ID_CID_TEST_1 == <<"C", "I", "D", "_", "T", "E", "S", "T", "_", "1">>

MaxSnapshots == 2

LoadMonths == {M_March_2025, M_April_2025, M_May_2025, M_June_2025}

\* What a summary file may hold: its three lists and its new chronics.
LoadContents ==
  {<<<<ID_SR216187>>, <<ID_091NOID1143035717419_889599>>, <<ID_VID_1583>>,
     <<<<P_Lumen, <<ID_445082297>>>>, <<P_Tata, <<ID_091NOID1143035717419_1040578>>>>>>>>,
   <<<< >>, <<ID_SR216187>>, << >>, << >>>>,
   <<<<ID_CID_TEST_1>>, << >>, << >>, << >>>>}

LoadSnapshots ==
  {OldSummary(m, c[1], c[2], c[3], c[4]) : m \in LoadMonths, c \in LoadContents}

\* The directories scanned: no two files of a directory share a name.
LoadOutputs ==
  {d \in SUBSET LoadSnapshots :
     /\ Cardinality(d) <= MaxSnapshots
     /\ \A f, g \in d : f.name = g.name => f = g}

LoadFrozenFiles ==
  FrozenFiles \cup
    {FrozenFile(<<ID_CID_TEST_1, ID_SR216187>>, << >>, <<ID_VID_1583, ID_CID_TEST_1>>),
     FrozenFile(<<ID_SR216187>>, << >>, <<ID_CID_TEST_1>>),
     FrozenFile(<< >>, << >>, <<ID_CID_TEST_1>>)}

InitLoad ==
  /\ CONSISTENT_THRESHOLD = DEFAULT_CONSISTENT_THRESHOLD
  /\ schedule = << >>
  /\ frozen_legacy \in {NoFrozenFile} \cup LoadFrozenFiles
  /\ final_output \in LoadOutputs
  /\ NotBuilt
  /\ CanonIdle
  /\ RollIdle
  /\ MetricsIdle

\* builder.load_baseline_status(output_dir): every exception is caught
\* inside (lines 273-274), so the call returns.
CallLoadBaselineStatus ==
  /\ load_call = "not called"
  /\ load_call' = "returned"
  /\ baseline' = load_baseline_status(frozen_legacy, final_output)
  /\ UNCHANGED <<canonVars, rollVars, envVars, built_month, built_impacts,
                 built_counts, all_circuits, chronic_data, trend_analysis,
                 metricVars>>

NextLoad == CallLoadBaselineStatus

SpecLoad == InitLoad /\ [][NextLoad]_vars

(***************************************************************************)
(* SpecShared: one build over a directory whose snapshot lists, among its  *)
(* new chronics, a circuit whose canonical id a hardcoded roster circuit   *)
(* has too.                                                                *)
(***************************************************************************)
SharedOutputs ==
  {{},
   {OldSummary(M_March_2025, <<ID_SR216187>>, <<ID_091NOID1143035717419_889599>>,
               <<ID_VID_1583>>,
               <<<<P_Tata, <<ID_091NOID1143035717419_1040578>>>>>>)},
   {OldSummary(M_March_2025, << >>, << >>, << >>, <<<<P_PCCW, <<ID_SR216187>>>>>>)},
   {OldSummary(M_March_2025, << >>, << >>, << >>,
               <<<<P_Tata, <<ID_091NOID1143035717419_889599>>>>>>)}}

InitShared ==
  /\ CONSISTENT_THRESHOLD = DEFAULT_CONSISTENT_THRESHOLD
  /\ schedule = <<M_April_2025>>
  /\ frozen_legacy = NoFrozenFile
  /\ final_output \in SharedOutputs
  /\ NotBuilt
  /\ CanonIdle
  /\ RollIdle
  /\ MetricsIdle

BuildOverSharedId == BuildReport(ImpactFiles, CountFiles)

NextShared == BuildOverSharedId

SpecShared == InitShared /\ [][NextShared]_vars

(***************************************************************************)
(* Properties of the pipeline                                              *)
(***************************************************************************)
\* A build has completed.
Built == built_month # << >>

\* The step is a build that follows an earlier build.
NextBuild == Built /\ built_month' # built_month

\* The lists of the last build's existing_chronics, as sets.
InConsistent == Elems(chronic_data.existing_chronics.chronic_consistent)

InInconsistent == Elems(chronic_data.existing_chronics.chronic_inconsistent)

InMedia == Elems(chronic_data.existing_chronics.media_chronics)

Roster == Elems(all_circuits)

\* The audit entry the last build recorded for a roster circuit.
TicketData(c) == DictGet(chronic_data.circuit_ticket_data, c)

\* The status the loaded baseline holds for the circuit's canonical id.
BaselineStatusIn(status_map, c) ==
  IF DictHas(status_map, CanonicalOf(c))
    THEN DictGet(status_map, CanonicalOf(c)) ELSE "absent"

BaselineStatusOf(c) == BaselineStatusIn(baseline.baseline_status, c)

FrozenStatuses == {STATUS_CONSISTENT, STATUS_INCONSISTENT, STATUS_MEDIA}

\* C1: a roster circuit whose canonical id the baseline maps to Consistent,
\* Inconsistent or Media Chronic is in the list of that status, in no other
\* list, and is recorded with that status, whatever its rolling ticket total.
C1_FrozenStatusKept ==
  Built =>
    \A c \in Roster :
      /\ BaselineStatusOf(c) = STATUS_CONSISTENT =>
           /\ c \in InConsistent /\ c \notin InInconsistent /\ c \notin InMedia
           /\ TicketData(c).status = "consistent"
      /\ BaselineStatusOf(c) = STATUS_INCONSISTENT =>
           /\ c \in InInconsistent /\ c \notin InConsistent /\ c \notin InMedia
           /\ TicketData(c).status = "inconsistent"
      /\ BaselineStatusOf(c) = STATUS_MEDIA =>
           /\ c \in InMedia /\ c \notin InConsistent /\ c \notin InInconsistent
           /\ TicketData(c).status = "media chronic"

\* A build in which a baseline Consistent circuit has a rolling total of 0 and
\* a baseline Inconsistent circuit a total at the threshold.
C1_Witness ==
  /\ Built
  /\ BaselineStatusOf(ID_091NOID1143035717419_889599) = STATUS_CONSISTENT
  /\ TicketData(ID_091NOID1143035717419_889599).rolling_ticket_total = 0
  /\ ID_091NOID1143035717419_889599 \in InConsistent
  /\ BaselineStatusOf(ID_SR216187) = STATUS_INCONSISTENT
  /\ TicketData(ID_SR216187).rolling_ticket_total >= CONSISTENT_THRESHOLD
  /\ ID_SR216187 \in InInconsistent

\* C2: a roster circuit whose canonical id is absent from the baseline or
\* pending promotion is in chronic_consistent exactly when the rolling ticket
\* total recorded for it is at least CONSISTENT_THRESHOLD, and in
\* chronic_inconsistent otherwise; with the default threshold a total of 6
\* gives Consistent and a total of 5 Inconsistent.
C2_ThresholdRule ==
  Built =>
    \A c \in Roster :
      BaselineStatusOf(c) \in {"absent", STATUS_PENDING} =>
        LET total == TicketData(c).rolling_ticket_total
        IN  /\ c \in InConsistent <=> total >= CONSISTENT_THRESHOLD
            /\ c \in InInconsistent <=> total < CONSISTENT_THRESHOLD
            /\ c \notin InMedia
            /\ CONSISTENT_THRESHOLD = DEFAULT_CONSISTENT_THRESHOLD =>
                 /\ total = 6 => TicketData(c).status = "consistent"
                 /\ total = 5 => TicketData(c).status = "inconsistent"

\* A build in which a circuit absent from the baseline has a total of 6 and a
\* pending promotion a total of 5.
C2_Witness ==
  /\ Built
  /\ BaselineStatusOf(ID_SR216187) = "absent"
  /\ TicketData(ID_SR216187).rolling_ticket_total = 6
  /\ ID_SR216187 \in InConsistent
  /\ ID_445082297 \in Roster
  /\ BaselineStatusOf(ID_445082297) = STATUS_PENDING
  /\ TicketData(ID_445082297).rolling_ticket_total = 5
  /\ ID_445082297 \in InInconsistent

\* The status a list of existing_chronics stands for.
WrittenStatusOf(existing, c) ==
  IF c \in Elems(existing.chronic_consistent) THEN STATUS_CONSISTENT
  ELSE IF c \in Elems(existing.chronic_inconsistent) THEN STATUS_INCONSISTENT
  ELSE STATUS_MEDIA

WrittenCircuits(existing) ==
  Elems(existing.chronic_consistent) \cup Elems(existing.chronic_inconsistent)
    \cup Elems(existing.media_chronics)

SetByFile(f) ==
  (IF \E i \in 1..Len(CutoverMonths) : Contains(f.name, CutoverMonths[i])
     THEN {CanonicalOf(c) : c \in WrittenCircuits(f.data.existing_chronics)}
     ELSE {})
  \cup (IF f.data.new_chronics = << >> THEN {}
        ELSE {CanonicalOf(c) : c \in Elems(f.data.new_chronics[1][2])})

\* The canonical ids set again after the lists of the summary of the given
\* period were read: by its own new chronics or by a file sorting after it.
SetAgainAfter(files, month) ==
  UNION {IF f.name = SummaryFileName(month)
           THEN (IF f.data.new_chronics = << >> THEN {}
                 ELSE {CanonicalOf(c) : c \in Elems(f.data.new_chronics[1][2])})
         ELSE IF StrLess(SummaryFileName(month), f.name) THEN SetByFile(f)
         ELSE {} : f \in files}

CanonicalRowSum(rows, c) ==
  LET idx == {i \in 1..Len(rows) :
                canonical_id(PyStr(rows[i][COL_NAME])) = canonical_id(PyStr(c))}
      RECURSIVE Sum(_)
      Sum(S) == IF S = {} THEN 0
                ELSE LET i == CHOOSE i \in S : TRUE
                     IN  FillNa0(rows[i][COL_TICKETS]) + Sum(S \ {i})
  IN  Sum(idx)

\* C4: the rolling_ticket_total recorded for a roster circuit is the sum of
\* the ticket counts of all input rows with the circuit's canonical id, and
\* so equals the recorded raw_ticket_count_crosstab.
C4_RollingTotalSumsCanonicalRows ==
  Built =>
    \A c \in Roster :
      /\ TicketData(c).rolling_ticket_total = CanonicalRowSum(built_impacts.rows, c)
      /\ TicketData(c).rolling_ticket_total = TicketData(c).raw_ticket_count_crosstab

\* C5 as stated: of two builds with the same baseline, the second gives every
\* circuit whose canonical id is a key of the baseline the status the first
\* gave it.
C5_BaselineKeysIgnoreTickets ==
  [][(NextBuild /\ baseline'.baseline_status = baseline.baseline_status) =>
       \A c \in Roster :
         (/\ DictHas(chronic_data'.circuit_ticket_data, c)
          /\ BaselineStatusOf(c) # "absent") =>
           DictGet(chronic_data'.circuit_ticket_data, c).status = TicketData(c).status]_vars

\* C5 amended: of two builds with the same baseline, the second gives every
\* circuit that the baseline maps to Consistent, Inconsistent or Media
\* Chronic the status the first gave it.
C5_FrozenKeysIgnoreTickets ==
  [][(NextBuild /\ baseline'.baseline_status = baseline.baseline_status) =>
       \A c \in Roster :
         (/\ DictHas(chronic_data'.circuit_ticket_data, c)
          /\ BaselineStatusOf(c) \in FrozenStatuses) =>
           DictGet(chronic_data'.circuit_ticket_data, c).status = TicketData(c).status]_vars

\* Two builds under the same frozen legacy list: SR216187, Consistent in it,
\* had 6 tickets in April and has 5 in May, and is Consistent in both.
C5_Witness ==
  /\ built_month = M_May_2025
  /\ frozen_legacy.exists
  /\ BaselineStatusOf(ID_SR216187) = STATUS_CONSISTENT
  /\ \E f \in final_output :
       /\ f.name = SummaryFileName(M_April_2025)
       /\ DictGet(f.data.circuit_ticket_data, ID_SR216187).rolling_ticket_total = 6
       /\ DictGet(f.data.circuit_ticket_data, ID_SR216187).status = "consistent"
  /\ TicketData(ID_SR216187).rolling_ticket_total = 5
  /\ TicketData(ID_SR216187).status = "consistent"


(***************************************************************************)
(* Properties of load_baseline_status (SpecLoad)                           *)
(***************************************************************************)
\* The call of load_baseline_status has returned.
Loaded == load_call = "returned"

\* The fallback scan was what the call had to use.
FallbackMode == ~frozen_legacy.exists

\* The months of 2025 in chronological order, and the place of a summary
\* file among them.
MonthsInOrder ==
  <<M_January_2025, M_February_2025, M_March_2025, M_April_2025, M_May_2025,
    M_June_2025, M_July_2025>>

MonthRank(f) ==
  CHOOSE i \in 1..Len(MonthsInOrder) : f.name = SummaryFileName(MonthsInOrder[i])

MostRecentSnapshot(files) ==
  CHOOSE f \in files : \A g \in files : MonthRank(g) <= MonthRank(f)

\* C12: in fallback mode the returned mapping is the one the most recent
\* snapshot alone gives, whatever the other snapshots hold.
C12_FallbackUsesMostRecentOnly ==
  (Loaded /\ FallbackMode /\ final_output # {}) =>
    Elems(baseline.baseline_status)
      = Elems(load_baseline_status(NoFrozenFile,
                                   {MostRecentSnapshot(final_output)}).baseline_status)


\* The circuits a frozen legacy list names, and those a summary file names
\* in its three lists and its new chronics.
FrozenCircuits(frozen_data) ==
  Elems(frozen_data.chronic_consistent) \cup Elems(frozen_data.chronic_inconsistent)
    \cup Elems(frozen_data.media_chronics)

SnapshotCircuits(f) ==
  FrozenCircuits(f.data.existing_chronics)
    \cup UNION {Elems(f.data.new_chronics[i][2]) : i \in 1..Len(f.data.new_chronics)}

\* The circuits of the source the call read.
SourceCircuits ==
  IF frozen_legacy.exists THEN FrozenCircuits(frozen_legacy.data)
  ELSE UNION {SnapshotCircuits(f) : f \in final_output}

BaselineKeys == {baseline.baseline_status[i][1] : i \in 1..Len(baseline.baseline_status)}

\* The canonical ids that only test circuits of the source have.
TestOnlyIds ==
  {CanonicalOf(c) : c \in {x \in SourceCircuits : StartsWith(x, CID_TEST)}}
    \ {CanonicalOf(c) : c \in {x \in SourceCircuits : ~StartsWith(x, CID_TEST)}}

\* C13: whichever source was read, neither the returned mapping nor the
\* returned id set holds an id that came from a CID_TEST circuit.
C13_NoTestCircuitInBaseline ==
  Loaded => (BaselineKeys \cup baseline.baseline_ids) \cap TestOnlyIds = {}


\* C14: with no frozen legacy list and no snapshot, the call returns (it
\* does not raise) an empty mapping and an empty id set, and baseline_found
\* is False.
C14_NoSourceGivesEmptyBaseline ==
  (load_call # "not called" /\ FallbackMode /\ final_output = {}) =>
    /\ load_call = "returned"
    /\ baseline.baseline_status = << >>
    /\ baseline.baseline_ids = {}
    /\ baseline.baseline_found = FALSE

\* C14 witness: the call has returned with neither source on disk.
C14_Witness ==
  /\ Loaded
  /\ ~frozen_legacy.exists
  /\ final_output = {}
  /\ ~baseline.baseline_found


\* The <<canonical id, status>> pairs the lists of a frozen legacy list or
\* of a summary file stand for.
ListedPairs(lists) ==
  {<<CanonicalOf(c), STATUS_CONSISTENT>> : c \in Elems(lists.chronic_consistent)}
    \cup {<<CanonicalOf(c), STATUS_INCONSISTENT>> : c \in Elems(lists.chronic_inconsistent)}
    \cup {<<CanonicalOf(c), STATUS_MEDIA>> : c \in Elems(lists.media_chronics)}

PendingPairs(f) ==
  {<<CanonicalOf(c), STATUS_PENDING>> :
     c \in UNION {Elems(f.data.new_chronics[i][2]) : i \in 1..Len(f.data.new_chronics)}}

SourcePairs ==
  IF frozen_legacy.exists THEN ListedPairs(frozen_legacy.data)
  ELSE UNION {(IF IsCutoverFile(f.name) THEN ListedPairs(f.data.existing_chronics)
               ELSE {}) \cup PendingPairs(f) : f \in final_output}

ReportedNewChronics ==
  UNION {Elems(chronic_data.new_chronics[i][2]) : i \in 1..Len(chronic_data.new_chronics)}

\* The circuits of the three buckets of the run.
BucketCircuits == InConsistent \cup InInconsistent \cup InMedia

\* Every 30-day watch list there is: the run's own perf_30_day and the one it
\* hands on, and the watch lists of the summary files on disk.
WatchListCircuits ==
  Elems(chronic_data.existing_chronics.perf_30_day)
    \cup Elems(chronic_data.updated_perf_30_day)
    \cup UNION {Elems(f.data.existing_chronics.perf_30_day)
                  \cup Elems(f.data.existing_chronics.perf_60_day) : f \in final_output}

AtThirdMonth(c) ==
  \E i \in 1..Len(built_counts.rows) :
    built_counts.rows[i][COL_NAME] = c /\ built_counts.rows[i][COL_MONTHS] = Cell(3)

\* C16: every circuit reported in new_chronics is at its third month, is in
\* none of the three buckets of the run, and was on a 30-day watch list.
C16_NewChronicsCompletedWatch ==
  Built =>
    \A c \in ReportedNewChronics :
      /\ AtThirdMonth(c)
      /\ c \notin BucketCircuits
      /\ c \in WatchListCircuits


\* c and e name one circuit under two spellings: with '/', '-', ' ' and '_'
\* removed and both longer than 5 characters one holds the other, or both
\* hold '419', or they are one of the two listed pairs.
SameCircuitRenamed(c, e) ==
  \/ /\ Len(WithoutSeparators(c)) > 5
     /\ Len(WithoutSeparators(e)) > 5
     /\ \/ Contains(WithoutSeparators(e), WithoutSeparators(c))
        \/ Contains(WithoutSeparators(c), WithoutSeparators(e))
  \/ Contains(c, <<"4", "1", "9">>) /\ Contains(e, <<"4", "1", "9">>)
  \/ /\ Contains(c, ID_091NOID1143035717419_1040578)
     /\ Contains(e, ID_091NOID1143035717419_889599)
  \/ /\ Contains(c, <<"L", "D", "0", "1", "7", "9", "3", "6">>)
     /\ Contains(e, <<"L", "D", "0", "1", "7", "9", "3", "6">>)
     /\ c # e

\* C17: no circuit reported in new_chronics is another spelling of a circuit
\* of the consistent, inconsistent or media bucket.
C17_NoVariationReported ==
  Built =>
    \A c \in ReportedNewChronics : \A e \in BucketCircuits : ~SameCircuitRenamed(c, e)

\* C17 witness: a circuit at its third month that completed the progression
\* and is in no bucket was left out because a bucket holds a variation of it.
C17_Witness ==
  /\ Built
  /\ \E c \in Elems(completed_progression_circuits) \ BucketCircuits :
       /\ AtThirdMonth(c)
       /\ c \notin ReportedNewChronics
       /\ \E e \in BucketCircuits : SameCircuitRenamed(c, e)


(***************************************************************************)
(* calculate_metrics (monthly_builder.py) and validate_calculations        *)
(* (utils.py).  A float is modelled by the fraction it approximates, kept  *)
(* in lowest terms; a Series is the sequence of its <<index, value>>       *)
(* pairs.  The provider count (lines 574-606) reads only the bucket lists  *)
(* and is not part of the model.                                           *)
(***************************************************************************)
COL_OUTAGE == "Outage Duration"

COL_OUTAGE_HOURS == "SUM Outage (Hours)"

KEY_AVAILABILITY == "bottom5_availability"

KEY_MTBF == "bottom5_mtbf"

COL_COST == "Cost to Serve (Sum Impact x $60/hr)"

RECURSIVE GCD(_, _)
GCD(a, b) == IF b = 0 THEN a ELSE GCD(b, a % b)

FracBy(n, d, g) == [num |-> n \div g, den |-> d \div g]

\* n / d for d > 0, in lowest terms
Frac(n, d) == FracBy(n, d, GCD(IF n < 0 THEN 0 - n ELSE n, d))

\* float(n)
FloatOf(n) == Frac(n, 1)

\* a / k, for an int k > 0
FloatDiv(a, k) == Frac(a.num, a.den * k)

\* 1 - a
OneMinus(a) == Frac(a.den - a.num, a.den)

\* k * a, for an int k
Times(k, a) == Frac(k * a.num, a.den)

\* a < b
FloatLess(a, b) == a.num * b.den < b.num * a.den

days_in_period == 90

potential_hours == days_in_period * 24

operating_hours == 24 * 90

\* The column calculate_metrics reads the outages from ("" for None).
outage_column(columns) ==
  IF COL_OUTAGE \in columns THEN COL_OUTAGE
  ELSE IF COL_OUTAGE_HOURS \in columns THEN COL_OUTAGE_HOURS
  ELSE ""

\* all_circuits_df.dropna(subset=['Config Item Name'])
DropNaNames(rows) == SelectSeq(rows, LAMBDA r : r[COL_NAME] # NaN)

\* utils.filter_test_circuits
filter_test_circuits(df) ==
  IF COL_NAME \notin df.columns THEN df
  ELSE [df EXCEPT !.rows = DropTestRows(@)]

GroupSumOver(rows, column, names) ==
  [i \in 1..Len(names) |->
     <<names[i], SumField(SelectEq(rows, COL_NAME, names[i]), column)>>] \o << >>

\* outage_df.groupby('Config Item Name')[column].sum(): one entry for each
\* name, in the order of the names.
GroupSum(rows, column) ==
  GroupSumOver(rows, column,
               SortedStrs({rows[i][COL_NAME] : i \in 1..Len(rows)}))

\* The hours of one circuit, dividing by 3600 (mutant).
outage_hours_twice(circuit_outage, column) ==
  IF column = COL_OUTAGE
    THEN FloatDiv(FloatDiv(FloatOf(circuit_outage), 60), 60)
    ELSE FloatOf(circuit_outage)

\* The hours of one circuit: 'Outage Duration' is divided by 60, 'SUM
\* Outage (Hours)' is taken as it is.
outage_hours(circuit_outage, column) ==
  IF column = COL_OUTAGE
    THEN FloatDiv(FloatOf(circuit_outage), 60)
    ELSE FloatOf(circuit_outage)

\* 100 * (1 - outage_hours / potential_hours) for one circuit
availability(hours, potential) ==
  Times(100, OneMinus(FloatDiv(hours, potential)))

availability_pct(circuit_outages, column) ==
  [i \in 1..Len(circuit_outages) |->
     <<circuit_outages[i][1],
       availability(outage_hours(circuit_outages[i][2], column),
                    potential_hours)>>] \o << >>

\* Every availability kept, whatever its value (mutant).
all_availability(availability_series) == availability_series

\* availability_pct[(availability_pct >= 0) & (availability_pct <= 100)]
valid_availability(availability_series) ==
  SelectSeq(availability_series,
            LAMBDA e : /\ ~FloatLess(e[2], FloatOf(0))
                       /\ ~FloatLess(FloatOf(100), e[2]))

RECURSIVE InsertByValue(_, _)
InsertByValue(sorted, e) ==
  IF sorted = << >> THEN <<e>>
  ELSE IF FloatLess(e[2], Head(sorted)[2]) THEN <<e>> \o sorted
  ELSE <<Head(sorted)>> \o InsertByValue(Tail(sorted), e)

\* Series.sort_values(): ascending; for the few entries modelled the sort
\* is an insertion sort and keeps equal values in index order.
RECURSIVE sort_values(_)
sort_values(series) ==
  IF series = << >> THEN << >>
  ELSE InsertByValue(sort_values(SubSeq(series, 1, Len(series) - 1)),
                     series[Len(series)])

\* Series.head(n)
head(series, n) ==
  SubSeq(series, 1, IF Len(series) < n THEN Len(series) ELSE n)

\* avail_data.head(5).to_dict() for the outage column found
RankAvailability(rows, column) ==
  head(sort_values(valid_availability(
         availability_pct(GroupSum(rows, column), column))), 5)

regional_circuits ==
  <<<<"5", "0", "0", "3", "3", "5", "8", "0", "5">>,
    <<"5", "0", "0", "3", "3", "2", "7", "3", "8">>,
    <<"5", "0", "0", "3", "3", "4", "1", "9", "3">>,
    <<"5", "0", "0", "3", "9", "4", "9", "4", "9">>,
    <<"5", "0", "0", "3", "9", "4", "7", "6", "5">>,
    <<"I", "S", "T", "6", "0", "2", "2", "E", "#", "2", "_", "0", "1", "0", "G">>,
    <<"I", "S", "T", "6", "0", "4", "1", "E", "#", "3", "_", "0", "1", "0", "G">>,
    <<"L", "Z", "A", "0", "1", "0", "6", "6", "3">>,
    <<"L", "Z", "A", "0", "1", "0", "6", "3", "5">>,
    <<"L", "Z", "A", "0", "1", "0", "6", "3", "4">>,
    <<"0", "2", "7", "I", "S", "A", "N", "2", "8", "4", "0", "1", "2", "2", "7", "2", "9", "2", "3">>,
    <<"0", "9", "1", "N", "O", "I", "D", "1", "1", "4", "3", "0", "3", "5", "7", "1", "7", "8", "4", "9", "_", "8", "8", "9", "6", "2", "1">>,
    <<"0", "9", "1", "N", "O", "I", "D", "1", "1", "4", "3", "0", "3", "5", "7", "1", "7", "4", "1", "9", "_", "8", "8", "9", "5", "9", "9">>,
    <<"S", "R", "2", "1", "6", "1", "8", "7">>,
    <<"0", "9", "1", "N", "O", "I", "D", "1", "1", "4", "3", "0", "3", "7", "0", "9", "2", "9", "7", "4", "_", "9", "9", "3", "5", "0", "2">>>>

\* The partial match of add_indicators on the two names without separators.
CoresOverlap(circuit_core, other_core) ==
  \/ Len(other_core) > 8 /\ Contains(circuit_core, other_core)
  \/ Len(circuit_core) > 8 /\ Contains(other_core, circuit_core)

\* circuit is in ids, or partially matches one of them
Flagged(circuit, ids) ==
  \/ circuit \in Elems(ids)
  \/ \E i \in 1..Len(ids) :
       CoresOverlap(WithoutSeparators(circuit), WithoutSeparators(ids[i]))

Indicators(circuit, all_chronic_ids) ==
  (IF Flagged(circuit, all_chronic_ids) THEN <<"C">> ELSE << >>)
    \o (IF Flagged(circuit, regional_circuits) THEN <<"R">> ELSE << >>)

\* f"{circuit} ({'/'.join(indicators)})", or the circuit without indicators
CircuitDisplay(circuit, indicators) ==
  IF indicators = << >> THEN circuit
  ELSE IF Len(indicators) = 1 THEN circuit \o <<" ", "(">> \o indicators \o <<")">>
  ELSE circuit \o <<" ", "(", indicators[1], "/", indicators[2], ")">>

RECURSIVE add_indicators(_, _)
add_indicators(circuit_dict, all_chronic_ids) ==
  IF circuit_dict = << >> THEN << >>
  ELSE DictSet(add_indicators(SubSeq(circuit_dict, 1, Len(circuit_dict) - 1),
                              all_chronic_ids),
               CircuitDisplay(circuit_dict[Len(circuit_dict)][1],
                              Indicators(circuit_dict[Len(circuit_dict)][1],
                                         all_chronic_ids)),
               circuit_dict[Len(circuit_dict)][2])

\* The entries copied from chronic_data.
BasicCounts(chronic) ==
  <<<<"total_chronic_circuits", chronic.total_chronic_circuits>>,
    <<"media_chronics", chronic.media_chronics>>,
    <<"new_chronic_count", chronic.new_chronic_count>>,
    <<"new_chronics", chronic.new_chronics>>>>

\* The bottom-5 availability entry, when the frame has an outage column.
WithAvailability(m, rows, column, all_chronic_ids) ==
  IF column = "" THEN m
  ELSE DictSet(m, KEY_AVAILABILITY,
               add_indicators(RankAvailability(rows, column), all_chronic_ids))

\* The Series with its values as floats.
AsFloats(series) ==
  [i \in 1..Len(series) |-> <<series[i][1], FloatOf(series[i][2])>>] \o << >>

RECURSIVE InsertByValueDescending(_, _)
InsertByValueDescending(sorted, e) ==
  IF sorted = << >> THEN <<e>>
  ELSE IF FloatLess(Head(sorted)[2], e[2]) THEN <<e>> \o sorted
  ELSE <<Head(sorted)>> \o InsertByValueDescending(Tail(sorted), e)

\* Series.sort_values(ascending=False); equal values stay in index order.
RECURSIVE sort_values_descending(_)
sort_values_descending(series) ==
  IF series = << >> THEN << >>
  ELSE InsertByValueDescending(
         sort_values_descending(SubSeq(series, 1, Len(series) - 1)),
         series[Len(series)])

\* series[series > 0]
Positive(series) == SelectSeq(series, LAMBDA e : FloatLess(FloatOf(0), e[2]))

\* The top-5 ticket entry, when the frame has the incident count column.
WithTickets(m, df, all_chronic_ids) ==
  IF COL_TICKETS \notin df.columns THEN m
  ELSE DictSet(m, "top5_tickets",
               add_indicators(
                 head(sort_values_descending(
                        AsFloats(GroupSum(df.rows, COL_TICKETS))), 5),
                 all_chronic_ids))

\* The top-5 cost entry, when the frame has the cost column.
WithCost(m, df, all_chronic_ids) ==
  IF COL_COST \notin df.columns THEN m
  ELSE DictSet(m, "top5_cost",
               add_indicators(
                 head(Positive(sort_values_descending(
                                 AsFloats(GroupSum(df.rows, COL_COST)))), 5),
                 all_chronic_ids))

\* The hours between failures reported as days (mutant).
mtbf_days_undivided(circuit_tickets) ==
  [i \in 1..Len(circuit_tickets) |->
     <<circuit_tickets[i][1],
       Frac(operating_hours * circuit_tickets[i][2].den,
            circuit_tickets[i][2].num)>>] \o << >>

\* mtbf_hours = operating_hours / circuit_tickets; mtbf_days = mtbf_hours / 24
mtbf_days(circuit_tickets) ==
  [i \in 1..Len(circuit_tickets) |->
     <<circuit_tickets[i][1],
       FloatDiv(Frac(operating_hours * circuit_tickets[i][2].den,
                     circuit_tickets[i][2].num), 24)>>] \o << >>

\* a + b
FloatAdd(a, b) == Frac(a.num * b.den + b.num * a.den, a.den * b.den)

RECURSIVE SeriesSum(_)
SeriesSum(series) ==
  IF series = << >> THEN FloatOf(0)
  ELSE FloatAdd(Head(series)[2], SeriesSum(Tail(series)))

\* Series.mean(): NaN for an empty Series
mean(series) ==
  IF series = << >> THEN NaN ELSE FloatDiv(SeriesSum(series), Len(series))

MtbfEntries(m, days, all_chronic_ids) ==
  DictSet(DictSet(m, KEY_MTBF, add_indicators(head(sort_values(days), 5),
                                              all_chronic_ids)),
          "avg_mtbf_days", mean(days))

\* The MTBF entries, when the frame has the incident count column.
WithMtbf(m, df, all_chronic_ids) ==
  IF COL_TICKETS \notin df.columns THEN m
  ELSE MtbfEntries(m, mtbf_days(Positive(AsFloats(GroupSum(df.rows, COL_TICKETS)))),
                   all_chronic_ids)

MetricsOf(chronic, all_circuits_df, all_chronic_ids) ==
  DictSet(WithMtbf(
            WithAvailability(
              WithCost(WithTickets(BasicCounts(chronic), all_circuits_df,
                                   all_chronic_ids),
                       all_circuits_df, all_chronic_ids),
              filter_test_circuits(all_circuits_df).rows,
              outage_column(all_circuits_df.columns),
              all_chronic_ids),
            all_circuits_df, all_chronic_ids),
          "chronic_circuit_ids", all_chronic_ids)

\* calculate_metrics, with show_indicators left at True
calculate_metrics(chronic) ==
  MetricsOf(chronic,
            filter_test_circuits(
              [chronic.merged_data EXCEPT !.rows = DropNaNames(@)]),
            chronic.existing_chronics.chronic_consistent
              \o chronic.existing_chronics.chronic_inconsistent)

AnyValue(d, Bad(_)) == \E i \in 1..Len(d) : Bad(d[i][2])

\* validate_calculations without the upper limit of 100 (mutant).
validate_calculations_lower_only(m) ==
  IF /\ DictHas(m, KEY_AVAILABILITY)
     /\ AnyValue(DictGet(m, KEY_AVAILABILITY),
                 LAMBDA v : FloatLess(v, FloatOf(0)))
    THEN "raised ValueError"
  ELSE IF /\ DictHas(m, KEY_MTBF)
          /\ AnyValue(DictGet(m, KEY_MTBF), LAMBDA v : FloatLess(v, FloatOf(0)))
    THEN "raised ValueError"
  ELSE "passed"

\* utils.validate_calculations: how the call ends
validate_calculations(m) ==
  IF /\ DictHas(m, KEY_AVAILABILITY)
     /\ AnyValue(DictGet(m, KEY_AVAILABILITY),
                 LAMBDA v : \/ FloatLess(v, FloatOf(0))
                            \/ FloatLess(FloatOf(100), v))
    THEN "raised ValueError"
  ELSE IF /\ DictHas(m, KEY_MTBF)
          /\ AnyValue(DictGet(m, KEY_MTBF), LAMBDA v : FloatLess(v, FloatOf(0)))
    THEN "raised ValueError"
  ELSE "passed"

(***************************************************************************)
(* calculate_metrics on its own: specification                             *)
(***************************************************************************)
MaxOutageRows == 2

OutageNames == <<ID_445082297, ID_SR216187, ID_CID_TEST_1>>

\* Outages below zero, none, within the period, the whole period in hours
\* and in minutes, and more than the period.
OutageValues == <<0 - 60, 0, 720, 2160, 129600, 129660>>

OutageRow(n, v, columns) ==
  (COL_NAME :> n) @@ [c \in columns \ {COL_NAME} |-> v]

OutageRowChoice(k, columns) ==
  OutageRow(OutageNames[((k - 1) \div Len(OutageValues)) + 1],
            Cell(OutageValues[((k - 1) % Len(OutageValues)) + 1]), columns)

\* Five further circuits, one of them without an outage value.
FurtherRows(columns) ==
  <<OutageRow(ID_VID_1583, Cell(60), columns),
    OutageRow(ID_444282783, Cell(120), columns),
    OutageRow(ID_444089285, NaN, columns),
    OutageRow(ID_444089468, Cell(720), columns),
    OutageRow(ID_LD017936, Cell(1440), columns)>>

OutageColumnSets ==
  {{COL_NAME}, {COL_NAME, COL_OUTAGE}, {COL_NAME, COL_OUTAGE_HOURS},
   {COL_NAME, COL_OUTAGE, COL_OUTAGE_HOURS}}

OutageFramesWith(columns) ==
  {[columns |-> columns,
    rows |-> [i \in 1..Len(ix) |-> OutageRowChoice(ix[i], columns)] \o further] :
     ix \in {s \in SeqsUpTo(1..(Len(OutageNames) * Len(OutageValues)), MaxOutageRows) :
               \A i \in 1..Len(s) : i = Len(s) \/ s[i] <= s[i + 1]},
     further \in {<< >>, FurtherRows(columns)}}

OutageFrames == UNION {OutageFramesWith(columns) : columns \in OutageColumnSets}

MetricsInputs ==
  {[NoChronicData EXCEPT !.merged_data = df,
                         !.existing_chronics.chronic_consistent = consistent] :
     df \in OutageFrames, consistent \in {<< >>, <<ID_445082297>>}}

\* Nothing loaded, built or written: all but chronic_data, which holds the
\* argument of calculate_metrics.
PipelineIdleBut ==
  /\ CONSISTENT_THRESHOLD = DEFAULT_CONSISTENT_THRESHOLD
  /\ frozen_legacy = NoFrozenFile
  /\ final_output = {}
  /\ schedule = << >>
  /\ built_month = << >>
  /\ built_impacts = NoFrame
  /\ built_counts = NoFrame
  /\ load_call = "not called"
  /\ baseline = NoBaseline
  /\ all_circuits = << >>
  /\ trend_analysis = NoTrend

InitMetrics ==
  /\ PipelineIdleBut
  /\ chronic_data \in MetricsInputs
  /\ MetricsIdle
  /\ CanonIdle
  /\ RollIdle

\* builder.calculate_metrics(chronic_data): the ValueError of
\* validate_calculations is caught and logged (lines 760-764), and the
\* metrics are returned.
CallCalculateMetrics ==
  /\ validation = "not called"
  /\ \E m \in {calculate_metrics(chronic_data)} :
       /\ metrics' = m
       /\ validation' = validate_calculations(m)
  /\ UNCHANGED <<canonVars, rollVars, envVars, buildVars>>

NextMetrics == CallCalculateMetrics

SpecMetrics == InitMetrics /\ [][NextMetrics]_vars

(***************************************************************************)
(* calculate_metrics on frames with ticket and cost columns: specification *)
(***************************************************************************)
MaxRankRows == 3

RankColumns == {COL_NAME, COL_TICKETS, COL_COST, COL_OUTAGE}

RankRow(n, tickets, cost, outage) ==
  (COL_NAME :> n) @@ (COL_TICKETS :> tickets) @@ (COL_COST :> Cell(cost))
    @@ (COL_OUTAGE :> Cell(outage))

\* Two raw identifiers of one canonical ID, two other circuits and a test
\* circuit, in the order of their names.
RankRowChoices ==
  <<RankRow(ID_091NOID1143035717419_889599, Cell(3), 60, 720),
    RankRow(ID_091NOID1143035717419_889599, Cell(0), 0, 0),
    RankRow(ID_091NOID1143035717419_889621, Cell(2), 120, 60),
    RankRow(ID_091NOID1143035717419_889621, NaN, 0, 0),
    RankRow(ID_445082297, Cell(2), 60, 0),
    RankRow(ID_CID_TEST_1, Cell(9), 600, 0),
    RankRow(ID_SR216187, Cell(0), 0, 129660),
    RankRow(ID_SR216187, Cell(1), 60, 0),
    RankRow(ID_SR216187, Cell(4), 0, 0)>>

\* Five further circuits.
FurtherRankRows ==
  <<RankRow(ID_VID_1583, Cell(1), 30, 60),
    RankRow(ID_444282783, Cell(2), 0, 120),
    RankRow(ID_444089285, Cell(5), 90, 0),
    RankRow(ID_444089468, Cell(6), 240, 720),
    RankRow(ID_LD017936, Cell(7), 300, 1440)>>

\* The rows restricted to the columns of the frame.
RankFrame(columns, rows) ==
  [columns |-> columns,
   rows |-> [i \in 1..Len(rows) |-> [c \in columns |-> rows[i][c]]] \o << >>]

RankFrames ==
  {RankFrame(columns, [i \in 1..Len(ix) |-> RankRowChoices[ix[i]]] \o further) :
     ix \in {s \in SeqsUpTo(1..Len(RankRowChoices), MaxRankRows) :
               \A i \in 1..Len(s) : i = Len(s) \/ s[i] <= s[i + 1]},
     columns \in {RankColumns, {COL_NAME, COL_OUTAGE}},
     further \in {<< >>, FurtherRankRows}}

InitRank ==
  /\ PipelineIdleBut
  /\ chronic_data \in {[NoChronicData EXCEPT !.merged_data = df] : df \in RankFrames}
  /\ MetricsIdle
  /\ CanonIdle
  /\ RollIdle

CalculateRankings == CallCalculateMetrics

NextRank == CalculateRankings

SpecRank == InitRank /\ [][NextRank]_vars

(***************************************************************************)
(* validate_calculations on its own: specification                         *)
(***************************************************************************)
MaxEntries == 2

MetricCircuits == <<ID_SR216187, ID_445082297, ID_444282783, ID_VID_1583>>

\* -0.1, 0, 98.3, 100 and 100.1
AvailabilityValues ==
  {Frac(0 - 1, 10), FloatOf(0), Frac(983, 10), FloatOf(100), Frac(1001, 10)}

\* -0.5, 0 and 18
MtbfValues == {Frac(0 - 1, 2), FloatOf(0), FloatOf(18)}

\* The dicts of up to MaxEntries circuits with values of V.
RankingsOf(V) ==
  {[i \in 1..Len(vs) |-> <<MetricCircuits[i], vs[i]>>] \o << >> :
     vs \in SeqsUpTo(V, MaxEntries)}

WithKey(m, k, rankings) == {m} \cup {DictSet(m, k, r) : r \in rankings}

ValidateInputs ==
  UNION {WithKey(m, KEY_MTBF, RankingsOf(MtbfValues)) :
           m \in WithKey(BasicCounts(NoChronicData), KEY_AVAILABILITY,
                         RankingsOf(AvailabilityValues))}

InitValidate ==
  /\ PipelineIdle
  /\ CanonIdle
  /\ RollIdle
  /\ metrics \in ValidateInputs
  /\ validation = "not called"

\* validate_calculations(metrics): the dictionary is only read.
CallValidateCalculations ==
  /\ validation = "not called"
  /\ validation' = validate_calculations(metrics)
  /\ UNCHANGED <<canonVars, rollVars, envVars, buildVars, metrics>>

NextValidate == CallValidateCalculations

SpecValidate == InitValidate /\ [][NextValidate]_vars



(***************************************************************************)
(* Properties of calculate_metrics (SpecMetrics)                           *)
(***************************************************************************)
MetricsReturned == validation # "not called"

OutageFrame == chronic_data.merged_data

\* Sum, over the first n rows, of the column's values of the rows named c,
\* an empty value being 0.
RECURSIVE OutageSumOf(_, _, _, _)
OutageSumOf(rows, column, c, n) ==
  IF n = 0 THEN 0
  ELSE OutageSumOf(rows, column, c, n - 1)
       + (IF rows[n][COL_NAME] = c /\ rows[n][column] # NaN
            THEN rows[n][column][1] ELSE 0)

SummedOutage(column, c) ==
  OutageSumOf(OutageFrame.rows, column, c, Len(OutageFrame.rows))

\* The circuits of the frame that are not test circuits.
AnalysedCircuits ==
  {OutageFrame.rows[i][COL_NAME] : i \in 1..Len(OutageFrame.rows)}
    \ {c \in {OutageFrame.rows[i][COL_NAME] : i \in 1..Len(OutageFrame.rows)} :
         Len(c) >= 8 /\ SubSeq(c, 1, 8) = <<"C", "I", "D", "_", "T", "E", "S", "T">>}

\* The availability ranking of the returned metrics (empty without one).
Ranked ==
  IF \E i \in 1..Len(metrics) : metrics[i][1] = "bottom5_availability"
    THEN metrics[CHOOSE i \in 1..Len(metrics) :
                   metrics[i][1] = "bottom5_availability"][2]
    ELSE << >>

\* d is the name c as the ranking shows it: c, or c followed by " (...)".
IsDisplayOf(d, c) ==
  \/ d = c
  \/ /\ Len(d) > Len(c) + 2
     /\ SubSeq(d, 1, Len(c) + 2) = c \o <<" ", "(">>

RankedValues(c) ==
  {Ranked[i][2] : i \in {j \in 1..Len(Ranked) : IsDisplayOf(Ranked[j][1], c)}}

\* 100 x (1 - (m / 60) / H) as one fraction
AvailabilityOfMinutes(m, H) == Frac(100 * (60 * H - m), 60 * H)

\* Floor of a thousand times a fraction: its first three decimals.
Thousandths(a) == (1000 * a.num) \div a.den

\* C18: with an 'Outage Duration' column, every ranked circuit carries
\* 100 x (1 - (m / 60) / 2160) for its summed duration m, every circuit for
\* which that value lies in 0..100 is ranked when there are at most five of
\* them, and 720 minutes over 720 potential hours give 98.333.
C18_AvailabilityDividesBy60Once ==
  /\ Thousandths(availability(outage_hours(720, COL_OUTAGE), 720)) = 98333
  /\ (MetricsReturned /\ COL_OUTAGE \in OutageFrame.columns) =>
       /\ \A i \in 1..Len(Ranked) :
            \E c \in AnalysedCircuits :
              /\ IsDisplayOf(Ranked[i][1], c)
              /\ Ranked[i][2] = AvailabilityOfMinutes(SummedOutage(COL_OUTAGE, c), 2160)
       /\ Cardinality({c \in AnalysedCircuits :
                         SummedOutage(COL_OUTAGE, c) \in 0..129600}) <= 5 =>
            \A c \in AnalysedCircuits :
              SummedOutage(COL_OUTAGE, c) \in 0..129600 =>
                RankedValues(c) = {AvailabilityOfMinutes(SummedOutage(COL_OUTAGE, c), 2160)}

\* C18 witness: two rows of 720 minutes each for one circuit were ranked as
\* 100 x (1 - 24 / 2160), that is 8900 / 90.
C18_Witness ==
  /\ MetricsReturned
  /\ COL_OUTAGE \in OutageFrame.columns
  /\ Len(OutageFrame.rows) = 2
  /\ \A i \in 1..2 : /\ OutageFrame.rows[i][COL_NAME] = ID_SR216187
                     /\ OutageFrame.rows[i][COL_OUTAGE] = Cell(720)
  /\ Len(Ranked) = 1
  /\ Ranked[1][2] = [num |-> 890, den |-> 9]

\* The value the code's formula gives circuit c, times the potential
\* minutes or hours: below 0 or above that potential when out of range.
OutOfRange(c) ==
  IF COL_OUTAGE \in OutageFrame.columns
    THEN SummedOutage(COL_OUTAGE, c) \notin 0..129600
    ELSE SummedOutage(COL_OUTAGE_HOURS, c) \notin 0..2160

\* C19: every ranked availability lies in 0..100, and a circuit whose
\* availability comes out below 0 or above 100 is not ranked.
C19_RankedWithinRange ==
  MetricsReturned =>
    /\ \A i \in 1..Len(Ranked) :
         /\ Ranked[i][2].num >= 0
         /\ Ranked[i][2].num <= 100 * Ranked[i][2].den
    /\ \A c \in AnalysedCircuits :
         (Ranked # << >> /\ OutOfRange(c)) => RankedValues(c) = {}

\* C19 witness: a circuit with more outage minutes than the period holds was
\* left out of a ranking of five circuits.
C19_Witness ==
  /\ MetricsReturned
  /\ COL_OUTAGE \in OutageFrame.columns
  /\ \E c \in AnalysedCircuits :
       SummedOutage(COL_OUTAGE, c) > 129600 /\ RankedValues(c) = {}
  /\ \E c \in AnalysedCircuits :
       SummedOutage(COL_OUTAGE, c) \in 0..129600 /\ RankedValues(c) # {}
  /\ Len(Ranked) = 5

(***************************************************************************)
(* Properties of validate_calculations (SpecValidate)                      *)
(***************************************************************************)
\* The values under key k of the metrics dictionary, as a set.
ValuesUnder(k) ==
  IF \E i \in 1..Len(metrics) : metrics[i][1] = k
    THEN LET d == metrics[CHOOSE i \in 1..Len(metrics) : metrics[i][1] = k][2]
         IN  {d[i][2] : i \in 1..Len(d)}
    ELSE {}

BelowZero(v) == v.num < 0

AboveHundred(v) == v.num > 100 * v.den

\* C20: validate_calculations raises ValueError when some availability is
\* below 0 or above 100, passes when every availability lies in 0..100 and
\* no MTBF is negative, and leaves the metrics dictionary as it was.
C20_ValidateCalculations ==
  /\ [](validation # "not called" =>
          /\ (\E v \in ValuesUnder("bottom5_availability") :
                BelowZero(v) \/ AboveHundred(v))
               => validation = "raised ValueError"
          /\ (/\ \A v \in ValuesUnder("bottom5_availability") :
                   ~BelowZero(v) /\ ~AboveHundred(v)
              /\ \A v \in ValuesUnder("bottom5_mtbf") : ~BelowZero(v))
               => validation = "passed")
  /\ [][metrics' = metrics]_vars

\* C20 witness: availabilities of exactly 0 and exactly 100 with an MTBF of
\* 0 passed.
C20_Witness ==
  /\ validation = "passed"
  /\ ValuesUnder("bottom5_availability") = {[num |-> 0, den |-> 1], [num |-> 100, den |-> 1]}
  /\ ValuesUnder("bottom5_mtbf") = {[num |-> 0, den |-> 1]}



\* Some circuit of the frame gets an availability that validate_calculations
\* rejects: one below 0 or above 100.
RejectedValueComputed ==
  /\ OutageFrame.columns \cap {COL_OUTAGE, COL_OUTAGE_HOURS} # {}
  /\ \E c \in AnalysedCircuits : OutOfRange(c)

\* C21: a call of calculate_metrics that computes a value which
\* validate_calculations rejects, or whose validation raises, is a hard
\* stop: it returns no metrics.
C21_RejectedValueIsHardStop ==
  (MetricsReturned /\ (validation = "raised ValueError" \/ RejectedValueComputed))
    => metrics = << >>



(***************************************************************************)
(* Properties of the rankings of calculate_metrics (SpecRank)              *)
(***************************************************************************)
\* The ranking under key k of the returned metrics (empty without one).
Ranking(k) ==
  IF \E i \in 1..Len(metrics) : metrics[i][1] = k
    THEN metrics[CHOOSE i \in 1..Len(metrics) : metrics[i][1] = k][2]
    ELSE << >>

\* The values the ranking under key k shows for the name c.
RankingValues(k, c) ==
  {Ranking(k)[i][2] :
     i \in {j \in 1..Len(Ranking(k)) : IsDisplayOf(Ranking(k)[j][1], c)}}

SummedTickets(c) ==
  OutageSumOf(OutageFrame.rows, COL_TICKETS, c, Len(OutageFrame.rows))

\* Every entry of bottom5_mtbf is a circuit with a summed incident count
\* n > 0 and carries hours / n; no circuit with n = 0 has an entry, and with
\* at most five circuits of n > 0 each of them has one.
MtbfIs(hours) ==
  (MetricsReturned /\ COL_TICKETS \in OutageFrame.columns) =>
    /\ \A i \in 1..Len(Ranking("bottom5_mtbf")) :
         /\ \E c \in AnalysedCircuits :
              /\ IsDisplayOf(Ranking("bottom5_mtbf")[i][1], c)
              /\ SummedTickets(c) > 0
              /\ Ranking("bottom5_mtbf")[i][2] = Frac(hours, SummedTickets(c))
         /\ Ranking("bottom5_mtbf")[i][2].num > 0
    /\ \A c \in AnalysedCircuits :
         SummedTickets(c) = 0 => RankingValues("bottom5_mtbf", c) = {}
    /\ Cardinality({c \in AnalysedCircuits : SummedTickets(c) > 0}) <= 5 =>
         \A c \in AnalysedCircuits :
           SummedTickets(c) > 0 => RankingValues("bottom5_mtbf", c) # {}

\* C22 as stated: the MTBF reported in days for a circuit with n > 0
\* incidents is (90 x 24) / n, circuits with n = 0 are left out, and every
\* reported MTBF is positive.
C22_MtbfIs2160OverN == MtbfIs(90 * 24)

\* C22 amended: the MTBF reported in days is 90 / n, that is (90 x 24) / n
\* hours divided by 24; circuits with n = 0 are left out, and every reported
\* MTBF is positive.
C22_MtbfDaysIs90OverN == MtbfIs(90)

\* C22 witness: a circuit with 3 + 0 incidents is reported with 30 days, a
\* circuit with no incident is not reported.
C22_Witness ==
  /\ MetricsReturned
  /\ COL_TICKETS \in OutageFrame.columns
  /\ SummedTickets(ID_091NOID1143035717419_889599) = 3
  /\ Len(SelectSeq(OutageFrame.rows,
                   LAMBDA r : r[COL_NAME] = ID_091NOID1143035717419_889599)) = 2
  /\ RankingValues("bottom5_mtbf", ID_091NOID1143035717419_889599) = {[num |-> 30, den |-> 1]}
  /\ ID_SR216187 \in AnalysedCircuits
  /\ SummedTickets(ID_SR216187) = 0
  /\ RankingValues("bottom5_mtbf", ID_SR216187) = {}



RankingKeys == {"top5_tickets", "top5_cost", "bottom5_availability", "bottom5_mtbf"}

\* C23: in each of the four rankings, circuits whose raw identifiers differ
\* but share a canonical ID make one entry, never separate entries.
C23_RankingsPerCanonicalId ==
  MetricsReturned =>
    \A k \in RankingKeys :
      \A c1, c2 \in AnalysedCircuits :
        (c1 # c2 /\ CanonicalOf(c1) = CanonicalOf(c2)) =>
          ~(RankingValues(k, c1) # {} /\ RankingValues(k, c2) # {})



(***************************************************************************)
(* Properties of consecutive builds (Spec)                                 *)
(***************************************************************************)
\* C24: every circuit the previous build listed under new_chronics is, in
\* the next build, pending promotion in the loaded baseline, on the roster,
\* and in chronic_consistent when its rolling ticket total reaches the
\* threshold and in chronic_inconsistent otherwise.
C24_NewChronicsPromotedNextRun ==
  [][NextBuild =>
       \A c \in ReportedNewChronics :
         /\ BaselineStatusIn(baseline'.baseline_status, c) = STATUS_PENDING
         /\ c \in Elems(all_circuits')
         /\ c \in Elems(chronic_data'.existing_chronics.chronic_consistent)
                    \cup Elems(chronic_data'.existing_chronics.chronic_inconsistent)
         /\ c \in Elems(chronic_data'.existing_chronics.chronic_consistent) <=>
              DictGet(chronic_data'.circuit_ticket_data, c).rolling_ticket_total
                >= CONSISTENT_THRESHOLD]_vars



(***************************************************************************)
(* Properties of the trend analysis (SpecTrend)                            *)
(***************************************************************************)
\* The summary files of periods before the one built.
EarlierSnapshots ==
  {f \in final_output :
     MonthRank(f) < MonthRank([name |-> SummaryFileName(built_month)])}

\* C25: a trend analysis that compared two snapshots took as previous the
\* chronologically most recent snapshot of a period before the current one.
C25_TrendUsesLatestEarlierSnapshot ==
  (Built /\ trend_analysis.outcome = "analysis") =>
    /\ EarlierSnapshots # {}
    /\ trend_analysis.previous = MostRecentSnapshot(EarlierSnapshots).name

\* C26: when the directory holds a snapshot of another period, the trend
\* analysis of a build is made, and the current-period data it read is the
\* snapshot this build produced.
C26_TrendReadsThisRunsSnapshot ==
  (Built /\ trend_analysis.outcome # "No previous month data available") =>
    /\ trend_analysis.outcome = "analysis"
    /\ trend_analysis.current = SummaryFile(built_month, chronic_data).data



(***************************************************************************)
(* Properties of the counts returned by process_chronic_logic              *)
(***************************************************************************)
\* C27: total_chronic_circuits of the last build is the number of circuits in
\* chronic_consistent plus the number in chronic_inconsistent, every circuit,
\* the promoted ones included, being counted once.
C27_TotalIsConsistentPlusInconsistent ==
  Built =>
    chronic_data.total_chronic_circuits
      = Len(chronic_data.existing_chronics.chronic_consistent)
          + Len(chronic_data.existing_chronics.chronic_inconsistent)

\* C28: new_chronic_count of the last build is the number of circuits listed
\* in the new_chronics summary of the same result.
C28_NewChronicCountIsSummarySize ==
  Built => chronic_data.new_chronic_count = Cardinality(ReportedNewChronics)



\* The three lists of the last build, one after the other.
ThreeLists ==
  chronic_data.existing_chronics.chronic_consistent
    \o chronic_data.existing_chronics.chronic_inconsistent
    \o chronic_data.existing_chronics.media_chronics

\* C29: after process_chronic_logic no circuit identifier occurs more than
\* once within or across chronic_consistent, chronic_inconsistent and
\* media_chronics, and every roster circuit occurs in one of the three.
C29_BucketsDisjointAndCoverRoster ==
  Built =>
    /\ \A i, j \in 1..Len(ThreeLists) : i # j => ThreeLists[i] # ThreeLists[j]
    /\ Roster \subseteq BucketCircuits



\* C30: whenever load_baseline_status leaves baseline_found False, the
\* mapping and the id set it returns are empty: a baseline that holds any
\* status, pending_promotion included, has baseline_found True.
C30_NotFoundMeansEmptyBaseline ==
  (load_call = "returned" /\ ~baseline.baseline_found) =>
    /\ baseline.baseline_status = << >>
    /\ baseline.baseline_ids = {}

=============================================================================
